---- MODULE Spec2Model ----
(***************************************************************************)
(* AnZaiBot: the group-message aggregator and the group-reply throttler of *)
(* src/bot/qqbot.py, run by one asyncio event loop (src/main.py).          *)
(*                                                                         *)
(* The event loop is modelled as a FIFO queue `ready` of callbacks; one    *)
(* step runs the callback at its head up to the next real suspension.      *)
(* memory_manager and context_manager are async functions over blocking    *)
(* sqlite3 calls: awaiting them never yields to the loop, so the code from *)
(* the start of _handle_message_event to the end of the buffering branch   *)
(* is one step.                                                            *)
(***************************************************************************)
EXTENDS Integers, Sequences, FiniteSets, TLC

\* ---------------------------------------------------------------- constants
GROUP_MESSAGE_BUFFER_THRESHOLD_FIXED == 5
GROUP_MESSAGE_BUFFER_THRESHOLD_RANDOM == 5
GROUP_REPLY_COOLDOWN == 20
\* self.heartbeat_timeout = 100
heartbeat_timeout == 100
\* await asyncio.sleep(3) between stop and start
RESTART_GRACE == 3
\* await asyncio.sleep(10) after a successful start
RESTART_SETTLE == 10
\* await asyncio.sleep(10) between checks
POLL_INTERVAL == 10

\* ------------------------------------------------------------------- bounds
\* events delivered in one behaviour
MaxEvents == 10
\* event tasks created but not yet run by the loop
MaxPending == 2
\* tasks (timers, suspended flushes) alive at once
MaxTasks == 2
\* send_message calls made in one behaviour
MaxSends == 4
\* send_message calls suspended at once
MaxInFlight == 2
\* the loop's clock is observed every ClockStep seconds, up to MaxClock
ClockStep == 10
MaxClock == 60
\* len(self.valid_keys): configured inference keys (at least one)
NumKeys == 1
\* trigger times are 1..MaxRunTime, the wall clock runs to MaxWall
MaxRunTime == 2
MaxWall == 2
\* scheduler calls in one behaviour (one process restart at most)
MaxJobCalls == 3
\* segments in one block
MaxSegs == 3
\* the watchdog is observed for MaxWatchClock seconds
MaxWatchClock == 230
\* go-cqhttp reports a heartbeat, or skips it, every HeartbeatEvery seconds
HeartbeatEvery == 5
\* restart cycles the watchdog begins in one behaviour
MaxRestartCycles == 2
\* inbound messages handled in one behaviour
MaxInbound == 2
\* tokens of a segment given to _parse_tool_call on its own
MaxSegLen == 4

Groups == {"g1"}

\* Sessions of the deferred jobs (user ids) and what #BingMsg / #BingNote carry.
Users == {"u1", "u2"}
Payloads == {"msg", "notebook"}

VARIABLES
    \* ---- QQBot state (aggregator)
    processed_message_ids,   \* ids already seen (deque of the last 200)
    group_message_buffers,   \* group -> sequence of buffered event ids
    group_message_timers,    \* group -> {} or {task id}: the handle dict
    \* ---- asyncio
    tasks,                   \* task id -> task record, for tasks not done
    ready,                   \* the loop's FIFO of callbacks to run
    \* ---- environment
    nextId,                  \* id of the next fresh inbound event
    \* ---- history (observation only)
    flushLog,                \* every batch handed to the consumer, in order
    unmet,                   \* group -> an expiry left the buffer since the last offer
    delivered,               \* group -> fresh event ids in delivery order
    lastOp,                  \* what the last aggregator step did
    \* ---- QQBot state (reply throttler)
    last_group_reply_time,   \* group -> {} or {time of the last reply}
    group_reply_buffers,     \* group -> replies accumulated during cooldown
    \* ---- send_message calls suspended in an await
    sends,                   \* call id -> record of the suspended call
    \* ---- environment
    now,                     \* loop.time(), in seconds
    nextSend,                \* id (and content) of the next send_message call
    \* ---- history (observation only)
    sentLog,                 \* every message handed to the HTTP post, in order
    sendHist,                \* group -> what each call decided, in call order
    sendOp,                  \* what the last throttler step did
    \* ---- one execute_anloop_sequence call (AnLoopInterpreter)
    anloop_string,           \* the text given to the call, as a token sequence
    ipc,                     \* "idle", "dispatching", "awaiting", "returned"
    tool_calls_str,          \* the call segments kept by the split
    idx,                     \* index of the segment the loop is at
    results,                 \* the result list built so far
    not_resp,                \* the background flag
    \* ---- history (observation only)
    dispatchLog,             \* begin / return of every dispatch_tool, in order
    sequenceLog,             \* for every execute_anloop_sequence call, the
                             \* number of the inbound message it was made for
    \* ---- Scheduler: the deferred jobs
    apState,                 \* apscheduler.state: "stopped" or "running"
    startCalled,             \* Scheduler.start() was called in this process
    pendingJobs,             \* apscheduler._pending_jobs: added before the start
    jobStore,                \* the SQLAlchemy job store (durable): id -> job
    _pending_user_tasks,     \* user -> {} or {job id}: the job awaiting #BingMsg
    send_message_callback,   \* a send callback is registered (None otherwise)
    wall,                    \* wall-clock time, in minutes
    \* ---- history (observation only)
    restarted,               \* the process has been restarted
    beforeRestart,           \* jobs tracked, and not yet due, at the last restart
    firedLog,                \* every job run by the scheduler, in order
    jobCalls,                \* every add_bing_me_task / update_pending_task call
    jobOp,                   \* what the last scheduler call did
    \* ---- Scheduler: the go-cqhttp watchdog
    running,                 \* self.running
    last_heartbeat_time,     \* time of the last heartbeat (or of the last start)
    monitor_task,            \* where _monitor_gocq_process is suspended
    wakeAt,                  \* when the sleep the monitor is in ends
    clock,                   \* time.time(), in seconds
    stopping,                \* where Scheduler.stop() is: "idle", "awaiting", "done"
    \* ---- history (observation only)
    procCalls,               \* every ProcessManager.start / stop call, in order
    gapExceeded,             \* some moment since the start was > timeout after the last heartbeat
    watchOp,                 \* what the last watchdog step did
    \* ---- one inbound message, from the event handler to the reply
    ppc,                     \* where the handling is suspended
    inbound,                 \* "private", "direct" (@ in a group) or "batch" (flushed buffer)
    context_user_id,         \* user_id of the session's ContextObject, which is
                             \* kept in ContextManager.contexts and shared
    model_path,              \* the branch of make_decision: "flash" or "pro"
    response_text,           \* the model's answer, as a token sequence
    failure,                 \* where an exception left the processing, or ""
    \* ---- history (observation only)
    nInbound,                \* inbound messages handled so far
    sendCalls,               \* every send_message call of the handlers, in order
    pipeOp,                  \* how the last handling ended
    \* ---- _parse_tool_call and dispatch_tool called on their own
    parsed,                  \* the last parse: its argument and what it gave
    dispatched               \* the last dispatch: its arguments and its result

aggVars == <<processed_message_ids, group_message_buffers, group_message_timers,
             tasks, ready, nextId, flushLog, unmet, delivered, lastOp>>

sendVars == <<last_group_reply_time, group_reply_buffers, sends, now, nextSend,
              sentLog, sendHist, sendOp>>

loopVars == <<anloop_string, ipc, tool_calls_str, idx, results, not_resp, dispatchLog,
              sequenceLog>>

\* What the steps of one component leave alone.
jobVars == <<apState, startCalled, pendingJobs, jobStore, _pending_user_tasks,
             send_message_callback, wall,
             restarted, beforeRestart, firedLog, jobCalls, jobOp>>

watchVars == <<running, last_heartbeat_time, monitor_task, wakeAt, clock, stopping,
               procCalls, gapExceeded, watchOp>>

pipeVars == <<ppc, inbound, context_user_id, model_path, response_text, failure,
              nInbound, sendCalls,
              pipeOp>>

parseVars == <<parsed, dispatched>>

notAggVars == <<sendVars, loopVars, jobVars, watchVars, pipeVars, parseVars>>
notSendVars == <<aggVars, loopVars, jobVars, watchVars, pipeVars, parseVars>>
notLoopVars == <<aggVars, sendVars, jobVars, watchVars, pipeVars, parseVars>>
notJobVars == <<aggVars, sendVars, loopVars, watchVars, pipeVars, parseVars>>
notWatchVars == <<aggVars, sendVars, loopVars, jobVars, pipeVars, parseVars>>
notPipeVars == <<aggVars, sendVars, jobVars, watchVars, parseVars>>
notParseVars == <<aggVars, sendVars, loopVars, jobVars, watchVars, pipeVars>>

vars == <<aggVars, sendVars, loopVars, jobVars, watchVars, pipeVars, parseVars>>

\* ------------------------------------------------------------------ helpers
Put(f, k, v) == [x \in DOMAIN f \cup {k} |-> IF x = k THEN v ELSE f[x]]
Drop(f, k) == [x \in DOMAIN f \ {k} |-> f[x]]

Range(s) == {s[i] : i \in 1..Len(s)}

NoOp == [op |-> "other", g |-> "", id |-> 0, thr |-> 0, size |-> 0,
         flushed |-> FALSE, armed |-> FALSE, superseded |-> FALSE,
         afterUnmet |-> FALSE]

\* A debounce timer that is armed and neither expired nor cancelled.
LiveTimer(t) == t.kind = "timer" /\ t.st \in {"new", "sleeping"} /\ ~t.cancel

LiveTimers(ts, g) == {t \in DOMAIN ts : ts[t].g = g /\ LiveTimer(ts[t])}

\* ------------------------------------------------------------ the aggregator
\* random.randint(0, RANDOM + 1): one more than the largest draw allowed
OfferDrawsWide == 0..(GROUP_MESSAGE_BUFFER_THRESHOLD_RANDOM + 1)

\* random.randint(0, R) on the expiry path as well
ExpiryDrawsFromZero == 0..GROUP_MESSAGE_BUFFER_THRESHOLD_RANDOM

\* random.randint(0, R) of the offer path and random.randint(2, R) of the
\* expiry path.
OfferDraws == 0..GROUP_MESSAGE_BUFFER_THRESHOLD_RANDOM
ExpiryDraws == 2..GROUP_MESSAGE_BUFFER_THRESHOLD_RANDOM

Threshold(r) == GROUP_MESSAGE_BUFFER_THRESHOLD_FIXED + r

\* insert(0, msg_event) in place of append(msg_event)
BufferPrepend(buf, ev) == <<ev>> \o buf

\* self.group_message_buffers[group_id].append(msg_event)
BufferAppend(buf, ev) == Append(buf, ev)

\* .get(group_id, []) in place of .pop(group_id, []): the buffer keeps the batch
BufferAfterGet(buf) == buf

\* buffered_events = self.group_message_buffers.pop(group_id)
BufferAfterPop(buf) == <<>>

\* The callback the loop runs next.
NextCallback(q) == Head(q)

\* Where the consumer (_process_buffered_group_messages after the pop) stops
\* in the step that flushed: "suspended" in an await that yields to the loop
\* (a retry sleep of the inference call, a tool's I/O, the HTTP post of
\* send_message), or "done": run to its end without yielding (the inference
\* client is called synchronously; no reply, or the reply was buffered).
ConsumerStops == {"suspended", "done"}

\* Task.cancel() on a task that is not done: the CancelledError is delivered
\* by the task's next step, which is queued now unless a step already is.
CancelIn(ts, t) == [ts EXCEPT ![t].cancel = TRUE, ![t].wake = TRUE]
CancelWake(ts, q, t) == IF ts[t].wake THEN q ELSE Append(q, [k |-> "task", id |-> t, g |-> ts[t].g])

\* `finally: self.group_message_timers.pop(group_id, None)`
HandleAfterFinally(h, t) == {}

\* ---------------------------------------------------------- reply throttler
NoSend == [op |-> "other", g |-> "", id |-> 0, at |-> 0, prevLast |-> 0,
           pendingBefore |-> <<>>, sentBefore |-> 0, post |-> "", parts |-> <<>>]

\* self.last_group_reply_time.get(group_id, 0.0)
LastReply(l) == IF l = {} THEN 0 ELSE CHOOSE t \in l : TRUE

\* the comparison of the gate turned round
InCooldownInverted(t, last) == t - last > GROUP_REPLY_COOLDOWN

\* current_time - last_reply_time < self.GROUP_REPLY_COOLDOWN
InCooldown(t, last) == t - last < GROUP_REPLY_COOLDOWN

\* the new content put before the buffered replies
MergePartsNewFirst(pending, c) == <<c>> \o pending

\* all_buffered_replies = self.group_reply_buffers.pop(group_id)
\* all_buffered_replies.append(content)
MergeParts(pending, c) == Append(pending, c)

\* the newline-joined replies sent as they are
SummaryFailedJoin == "join"

\* messages_to_send when every summarization attempt failed.
SummaryFailedKind == "apology"

\* the merged replies put back before the buffered ones when the post failed
PendingRestored(buf, parts, outcome) ==
    IF outcome = "ok" THEN buf ELSE SubSeq(parts, 1, Len(parts) - 1) \o buf

\* except Exception around the HTTP post: the error is logged and the loop
\* over the parts is left; the reply buffer is not touched.
PendingAfterPost(buf, parts, outcome) == buf

\* What the HTTP post can do: status ok, an error status, an exception.
PostOutcomes == {"ok", "error", "raised"}

\* `for i in range(len(self.valid_keys) * 2)` of _call_gemini_api
MaxAttempts == 2 * NumKeys

\* The message handed to the HTTP post, as sentLog records it.
Sent(g, id, parts, kind) ==
    [g |-> g, at |-> now, id |-> id, parts |-> parts, kind |-> kind]

\* ------------------------------------------------------------- deferred jobs
NoPipeOp == [op |-> "other", inbound |-> "", path |-> "", response |-> <<>>,
             executed |-> FALSE, not_resp |-> FALSE, successes |-> 0,
             failure |-> "", sent |-> "none", escaped |-> FALSE]

NoWatchOp == [op |-> "other", gap |-> 0, outcome |-> ""]

NoJobOp == [op |-> "other", user |-> "", res |-> "", hadPointer |-> FALSE,
            before |-> <<>>]

NoParse == [op |-> "none", tool_str |-> <<>>, name |-> <<>>, params |-> <<>>,
            raised |-> FALSE]

NoDispatch == [op |-> "none", tool_name |-> <<>>, tool_params |-> <<>>,
               method |-> "", outcome |-> "", res |-> <<>>]

Init ==
    /\ processed_message_ids = {}
    /\ group_message_buffers = [g \in Groups |-> <<>>]
    /\ group_message_timers = [g \in Groups |-> {}]
    /\ tasks = <<>>
    /\ ready = <<>>
    /\ nextId = 1
    /\ flushLog = <<>>
    /\ unmet = [g \in Groups |-> FALSE]
    /\ delivered = [g \in Groups |-> <<>>]
    /\ lastOp = NoOp
    /\ last_group_reply_time = [g \in Groups |-> {}]
    /\ group_reply_buffers = [g \in Groups |-> <<>>]
    /\ sends = <<>>
    /\ now = 0
    /\ nextSend = 1
    /\ sentLog = <<>>
    /\ sendHist = [g \in Groups |-> <<>>]
    /\ sendOp = NoSend
    /\ anloop_string = <<>>
    /\ ipc = "idle"
    /\ tool_calls_str = <<>>
    /\ idx = 0
    /\ results = <<>>
    /\ not_resp = FALSE
    /\ dispatchLog = <<>>
    /\ sequenceLog = <<>>
    /\ apState = "stopped"
    /\ startCalled = FALSE
    /\ pendingJobs = <<>>
    /\ jobStore = <<>>
    /\ _pending_user_tasks = [u \in Users |-> {}]
    /\ send_message_callback = FALSE
    /\ wall = 0
    /\ restarted = FALSE
    /\ beforeRestart = {}
    /\ firedLog = <<>>
    /\ jobCalls = <<>>
    /\ jobOp = NoJobOp
    /\ running = FALSE
    /\ last_heartbeat_time = 0
    /\ monitor_task = "none"
    /\ wakeAt = 0
    /\ clock = 0
    /\ stopping = "idle"
    /\ procCalls = <<>>
    /\ gapExceeded = FALSE
    /\ watchOp = NoWatchOp
    /\ ppc = "idle"
    /\ inbound = ""
    /\ context_user_id = <<"u1">>
    /\ model_path = ""
    /\ response_text = <<>>
    /\ failure = ""
    /\ nInbound = 0
    /\ sendCalls = <<>>
    /\ pipeOp = NoPipeOp
    /\ parsed = NoParse
    /\ dispatched = NoDispatch

\* handle_cqhttp_event: a request arrives and its event is given a task of
\* its own. go-cqhttp may report the latest event again (same message_id)
\* after the first report was handled.
Deliver(g, id) ==
    /\ id \in {nextId} \cup ({nextId - 1} \cap processed_message_ids)
    /\ nextId <= MaxEvents
    /\ Cardinality({i \in 1..Len(ready) : ready[i].k = "event"}) < MaxPending
    /\ Cardinality(DOMAIN tasks) < MaxTasks
    /\ ready' = Append(ready, [k |-> "event", id |-> id, g |-> g])
    /\ nextId' = IF id = nextId THEN nextId + 1 ELSE nextId
    /\ delivered' = IF id = nextId
                    THEN [delivered EXCEPT ![g] = Append(@, id)] ELSE delivered
    /\ lastOp' = NoOp
    /\ UNCHANGED <<processed_message_ids, group_message_buffers,
                   group_message_timers, tasks, flushLog, unmet, notAggVars>>

\* _handle_message_event for an event already processed: ignored.
OfferDuplicate ==
    /\ ready # <<>>
    /\ LET cb == NextCallback(ready) IN
        /\ cb.k = "event"
        /\ cb.id \in processed_message_ids
        /\ ready' = Tail(ready)
        /\ lastOp' = NoOp
        /\ UNCHANGED <<processed_message_ids, group_message_buffers,
                       group_message_timers, tasks, nextId, flushLog, unmet,
                   delivered, notAggVars>>

\* _handle_message_event for a non-addressed group message: record the id,
\* append to the buffer, cancel the registered timer, draw the threshold,
\* then either flush in this task or arm a new timer task.
Offer(r, stop) ==
    /\ ready # <<>>
    /\ LET cb == NextCallback(ready)
           g == cb.g
           buf == BufferAppend(group_message_buffers[g], cb.id)
           h == group_message_timers[g]
           toCancel == {t \in h : t \in DOMAIN tasks}
           ts0 == [t \in DOMAIN tasks |->
                     IF tasks[t].g = g /\ tasks[t].kind = "timer"
                     THEN [tasks[t] EXCEPT !.superseded = TRUE] ELSE tasks[t]]
           ts1 == IF toCancel = {} THEN ts0
                  ELSE CancelIn(ts0, CHOOSE t \in toCancel : TRUE)
           q1 == IF toCancel = {} THEN Tail(ready)
                 ELSE CancelWake(tasks, Tail(ready), CHOOSE t \in toCancel : TRUE)
           thr == Threshold(r)
       IN
        /\ cb.k = "event"
        /\ cb.id \notin processed_message_ids
        /\ r \in OfferDraws
        /\ stop \in ConsumerStops
        /\ processed_message_ids' = processed_message_ids \cup {cb.id}
        /\ unmet' = [unmet EXCEPT ![g] = FALSE]
        /\ UNCHANGED <<nextId, delivered, notAggVars>>
        /\ IF Len(buf) >= thr
           THEN \* await self._process_buffered_group_messages(group_id)
                /\ group_message_buffers' =
                       [group_message_buffers EXCEPT ![g] = BufferAfterPop(buf)]
                /\ flushLog' = Append(flushLog, [g |-> g, batch |-> buf, by |-> "offer", owner |-> cb.id])
                /\ group_message_timers' = group_message_timers
                /\ tasks' = IF stop = "done" THEN ts1
                            ELSE Put(ts1, cb.id,
                                     [kind |-> "event", g |-> g, st |-> stop,
                                      cancel |-> FALSE, wake |-> FALSE,
                                      superseded |-> FALSE])
                /\ ready' = q1
                /\ lastOp' = [NoOp EXCEPT !.op = "offer", !.g = g, !.id = cb.id,
                                !.thr = thr, !.size = Len(buf), !.flushed = TRUE]
           ELSE \* asyncio.create_task(self._start_group_message_timer(group_id))
                /\ stop = "done"
                /\ group_message_buffers' = [group_message_buffers EXCEPT ![g] = buf]
                /\ flushLog' = flushLog
                /\ group_message_timers' = [group_message_timers EXCEPT ![g] = {cb.id}]
                /\ tasks' = Put(ts1, cb.id,
                                [kind |-> "timer", g |-> g, st |-> "new",
                                 cancel |-> FALSE, wake |-> TRUE,
                                 superseded |-> FALSE])
                /\ ready' = Append(q1, [k |-> "task", id |-> cb.id, g |-> g])
                /\ lastOp' = [NoOp EXCEPT !.op = "offer", !.g = g, !.id = cb.id,
                                !.thr = thr, !.size = Len(buf), !.armed = TRUE]

\* ---------------------------------------------------------- timer task steps
HeadTask == IF ready # <<>> /\ NextCallback(ready).k = "task"
            THEN {NextCallback(ready).id} ELSE {}

\* First step of _start_group_message_timer: enters the try block and
\* suspends in asyncio.sleep(GROUP_MESSAGE_BUFFER_TIMEOUT).
TimerStart ==
    \E t \in HeadTask :
        /\ tasks[t].st = "new" /\ ~tasks[t].cancel
        /\ tasks' = [tasks EXCEPT ![t].st = "sleeping", ![t].wake = FALSE]
        /\ ready' = Tail(ready)
        /\ lastOp' = NoOp
        /\ UNCHANGED <<processed_message_ids, group_message_buffers,
                       group_message_timers, nextId, flushLog, unmet,
                   delivered, notAggVars>>

\* A task cancelled before its first step: the CancelledError is thrown into
\* a coroutine that has not entered its try block, so no finally runs.
TimerCancelledUnstarted ==
    \E t \in HeadTask :
        /\ tasks[t].st = "new" /\ tasks[t].cancel
        /\ tasks' = Drop(tasks, t)
        /\ ready' = Tail(ready)
        /\ lastOp' = NoOp
        /\ UNCHANGED <<processed_message_ids, group_message_buffers,
                       group_message_timers, nextId, flushLog, unmet,
                   delivered, notAggVars>>

\* A started timer task receives its CancelledError (in the sleep, or in an
\* await of the flush it was running): except CancelledError, then finally.
TimerCancelled ==
    \E t \in HeadTask :
        /\ tasks[t].st # "new" /\ tasks[t].cancel
        /\ tasks' = Drop(tasks, t)
        /\ ready' = Tail(ready)
        /\ group_message_timers' =
               [group_message_timers EXCEPT
                   ![tasks[t].g] = HandleAfterFinally(group_message_timers[tasks[t].g], t)]
        /\ lastOp' = NoOp
        /\ UNCHANGED <<processed_message_ids, group_message_buffers,
                       nextId, flushLog, unmet,
                   delivered, notAggVars>>

\* The loop's clock reaches the end of a timer's sleep: its wake-up is queued.
SleepElapses(t) ==
    /\ t \in DOMAIN tasks
    /\ tasks[t].st = "sleeping" /\ ~tasks[t].wake
    /\ tasks' = [tasks EXCEPT ![t].st = "fired", ![t].wake = TRUE]
    /\ ready' = Append(ready, [k |-> "task", id |-> t, g |-> tasks[t].g])
    /\ lastOp' = NoOp
    /\ UNCHANGED <<processed_message_ids, group_message_buffers,
                   group_message_timers, nextId, flushLog, unmet,
                   delivered, notAggVars>>

\* The timer's expiry action: with a non-empty buffer draw the threshold and
\* flush if it is met; in every case but a suspended flush the finally block
\* runs in the same step.
TimerExpiry(r, stop) ==
    \E t \in HeadTask :
        LET g == tasks[t].g
            buf == group_message_buffers[g]
            thr == Threshold(r)
            met == buf # <<>> /\ Len(buf) >= thr
            base == [NoOp EXCEPT !.op = "expiry", !.g = g, !.id = t,
                       !.thr = IF buf # <<>> THEN thr ELSE 0,
                       !.size = Len(buf),
                       !.superseded = tasks[t].superseded,
                       !.afterUnmet = unmet[g]]
        IN
        /\ tasks[t].st = "fired" /\ ~tasks[t].cancel
        /\ r \in ExpiryDraws
        /\ stop \in ConsumerStops
        /\ ready' = Tail(ready)
        /\ UNCHANGED <<processed_message_ids, nextId, delivered, notAggVars>>
        /\ IF met
           THEN /\ group_message_buffers' =
                       [group_message_buffers EXCEPT ![g] = BufferAfterPop(buf)]
                /\ flushLog' = Append(flushLog, [g |-> g, batch |-> buf, by |-> "timer", owner |-> t])
                /\ unmet' = unmet
                /\ IF stop = "done"
                   THEN /\ tasks' = Drop(tasks, t)
                        /\ group_message_timers' =
                               [group_message_timers EXCEPT
                                   ![g] = HandleAfterFinally(group_message_timers[g], t)]
                   ELSE /\ tasks' = [tasks EXCEPT ![t].st = stop, ![t].wake = FALSE]
                        /\ group_message_timers' = group_message_timers
                /\ lastOp' = [base EXCEPT !.flushed = TRUE]
           ELSE /\ stop = "done"
                /\ r = IF buf = <<>> THEN 2 ELSE r
                /\ group_message_buffers' = group_message_buffers
                /\ flushLog' = flushLog
                /\ unmet' = [unmet EXCEPT ![g] = (buf # <<>>)]
                /\ tasks' = Drop(tasks, t)
                /\ group_message_timers' =
                       [group_message_timers EXCEPT
                           ![g] = HandleAfterFinally(group_message_timers[g], t)]
                /\ lastOp' = base

\* ------------------------------------------------------- the flush consumer
\* What a suspended consumer waits for completes and the consumer runs to
\* its end (send_message returns); a timer task then runs its finally block.
\* The wake-up is not queued separately: a cancellation that overtakes it
\* ends the task through TimerCancelled with the same finally block.
ConsumerResume(t) ==
    LET g == tasks[t].g IN
    /\ t \in DOMAIN tasks
    /\ tasks[t].st = "suspended" /\ ~tasks[t].wake
    /\ tasks' = Drop(tasks, t)
    /\ group_message_timers' =
           IF tasks[t].kind = "timer"
           THEN [group_message_timers EXCEPT
                   ![g] = HandleAfterFinally(group_message_timers[g], t)]
           ELSE group_message_timers
    /\ lastOp' = NoOp
    /\ UNCHANGED <<processed_message_ids, group_message_buffers, ready,
                   nextId, flushLog, unmet,
                   delivered, notAggVars>>

AggNext ==
    \/ \E g \in Groups, id \in 1..MaxEvents : Deliver(g, id)
    \/ OfferDuplicate
    \/ \E r \in OfferDraws, stop \in ConsumerStops : Offer(r, stop)
    \/ TimerStart
    \/ TimerCancelledUnstarted
    \/ TimerCancelled
    \/ \E t \in DOMAIN tasks : SleepElapses(t)
    \/ \E r \in ExpiryDraws, stop \in ConsumerStops : TimerExpiry(r, stop)
    \/ \E t \in DOMAIN tasks : ConsumerResume(t)

SpecAggregator == Init /\ [][AggNext]_vars

\* send_message(group): the call up to its first await that yields. In
\* cooldown the content is buffered and the call returns. Otherwise pending
\* replies are popped and merged and the summarization is called: the
\* inference client is synchronous, so a first attempt that succeeds yields
\* nowhere; one that fails sleeps a second before the retry. With nothing
\* pending, or after a summary, the reply time is set to the time read at the
\* top of the call and the message is posted.
SendBegin(g, firstAttemptOk) ==
    LET c == nextSend
        last == LastReply(last_group_reply_time[g])
        pending == group_reply_buffers[g]
        base == [NoSend EXCEPT !.g = g, !.id = c, !.at = now, !.prevLast = last,
                   !.pendingBefore = pending, !.sentBefore = Len(sentLog)]
    IN
    /\ nextSend <= MaxSends
    /\ Cardinality(DOMAIN sends) < MaxInFlight
    /\ nextSend' = nextSend + 1
    /\ now' = now
    /\ IF InCooldown(now, last)
       THEN /\ firstAttemptOk
            /\ group_reply_buffers' = [group_reply_buffers EXCEPT ![g] = Append(@, c)]
            /\ sendHist' = [sendHist EXCEPT ![g] =
                              Append(@, [id |-> c, at |-> now, last |-> last, outcome |-> "buffered"])]
            /\ sendOp' = [base EXCEPT !.op = "buffered"]
            /\ UNCHANGED <<last_group_reply_time, sends, sentLog>>
       ELSE IF pending # <<>>
       THEN /\ group_reply_buffers' = [group_reply_buffers EXCEPT ![g] = <<>>]
            /\ sendHist' = [sendHist EXCEPT ![g] =
                              Append(@, [id |-> c, at |-> now, last |-> last, outcome |-> "merge"])]
            /\ sendOp' = [base EXCEPT !.op = "merge"]
            /\ IF firstAttemptOk
               THEN /\ last_group_reply_time' =
                           [last_group_reply_time EXCEPT ![g] = {now}]
                    /\ sentLog' = Append(sentLog,
                           Sent(g, c, MergeParts(pending, c), "summary"))
                    /\ sends' = Put(sends, c,
                           [g |-> g, at |-> now, pc |-> "posting",
                            parts |-> MergeParts(pending, c), fails |-> 0,
                            wakeAt |-> now])
               ELSE /\ sends' = Put(sends, c,
                           [g |-> g, at |-> now, pc |-> "summarizing",
                            parts |-> MergeParts(pending, c), fails |-> 1,
                            wakeAt |-> now + 1])
                    /\ UNCHANGED <<last_group_reply_time, sentLog>>
       ELSE /\ firstAttemptOk
            /\ last_group_reply_time' = [last_group_reply_time EXCEPT ![g] = {now}]
            /\ sentLog' = Append(sentLog, Sent(g, c, <<c>>, "direct"))
            /\ sends' = Put(sends, c,
                   [g |-> g, at |-> now, pc |-> "posting", parts |-> <<c>>,
                    fails |-> 0, wakeAt |-> now])
            /\ sendHist' = [sendHist EXCEPT ![g] =
                              Append(@, [id |-> c, at |-> now, last |-> last, outcome |-> "direct"])]
            /\ sendOp' = [base EXCEPT !.op = "direct"]
            /\ UNCHANGED group_reply_buffers
    /\ UNCHANGED notSendVars

\* The time written as the reply time: the call's reading of the loop clock
\* at the top of the call (current_time), not the time of the write.
ReplyStampAtWrite(at, t) == t

ReplyStamp(at, t) == at

\* _call_gemini_api after a retry sleep: the next attempt succeeds, or fails
\* and sleeps again, or the attempts are used up and the exception reaches
\* send_message's handler, which substitutes the failure message. On leaving
\* the summarization the reply time is set to the time read at the top of
\* the call, and the message is posted.
SummarizeResume(s, attemptOk) ==
    LET rec == sends[s]
        g == rec.g
        exhausted == rec.fails >= MaxAttempts
        base == [NoSend EXCEPT !.g = g, !.id = s, !.at = rec.at,
                   !.prevLast = LastReply(last_group_reply_time[g]),
                   !.pendingBefore = group_reply_buffers[g],
                   !.sentBefore = Len(sentLog)]
    IN
    /\ rec.pc = "summarizing"
    /\ now >= rec.wakeAt
    /\ IF exhausted \/ attemptOk
       THEN /\ exhausted => attemptOk
            /\ last_group_reply_time' = [last_group_reply_time EXCEPT ![g] =
                                          {ReplyStamp(rec.at, now)}]
            /\ sentLog' = Append(sentLog,
                   Sent(g, s, rec.parts,
                        IF exhausted THEN SummaryFailedKind ELSE "summary"))
            /\ sends' = [sends EXCEPT ![s].pc = "posting"]
            /\ sendOp' = [base EXCEPT !.op = "summarized"]
       ELSE /\ sends' = [sends EXCEPT ![s].fails = @ + 1, ![s].wakeAt = now + 1]
            /\ sendOp' = [base EXCEPT !.op = "retry"]
            /\ UNCHANGED <<last_group_reply_time, sentLog>>
    /\ UNCHANGED <<group_reply_buffers, now, nextSend, sendHist, notSendVars>>

\* The HTTP post returns (ok, an error status, or an exception): the call
\* records the reply in the history on ok and ends either way.
PostReturns(s, outcome) ==
    /\ sends[s].pc = "posting"
    /\ sends' = Drop(sends, s)
    /\ group_reply_buffers' = [group_reply_buffers EXCEPT ![sends[s].g] =
                                  PendingAfterPost(@, sends[s].parts, outcome)]
    /\ sendOp' = [NoSend EXCEPT !.op = "posted", !.g = sends[s].g, !.id = s,
                     !.prevLast = LastReply(last_group_reply_time[sends[s].g]),
                     !.pendingBefore = group_reply_buffers[sends[s].g],
                     !.post = outcome, !.parts = sends[s].parts]
    /\ UNCHANGED <<last_group_reply_time, now, nextSend, sentLog, sendHist, notSendVars>>

\* The task running the call is cancelled while the call is suspended in
\* the summarization's retry sleep (a timer task's flush cancelled by an
\* offer): CancelledError is no Exception, so it leaves send_message.
SendCancelled(s) ==
    /\ sends[s].pc = "summarizing"
    /\ sends' = Drop(sends, s)
    /\ sendOp' = [NoSend EXCEPT !.op = "cancelled", !.g = sends[s].g, !.id = s]
    /\ UNCHANGED <<last_group_reply_time, group_reply_buffers, now, nextSend,
                   sentLog, sendHist, notSendVars>>

\* The loop's clock advances.
Tick ==
    /\ now + ClockStep <= MaxClock
    /\ now' = now + ClockStep
    /\ sendOp' = NoSend
    /\ UNCHANGED <<last_group_reply_time, group_reply_buffers, sends, nextSend,
                   sentLog, sendHist, notSendVars>>

SendNext ==
    \/ \E g \in Groups, ok \in BOOLEAN : SendBegin(g, ok)
    \/ \E s \in DOMAIN sends, ok \in BOOLEAN : SummarizeResume(s, ok)
    \/ \E s \in DOMAIN sends, o \in PostOutcomes : PostReturns(s, o)
    \/ \E s \in DOMAIN sends : SendCancelled(s)
    \/ Tick

SpecThrottler == Init /\ [][SendNext]_vars

\* The event loop keeps running: time passes and every suspended call is
\* resumed. Whether and when send_message is called again is up to the
\* conversations.
SendFairness ==
    /\ WF_vars(Tick)
    /\ WF_vars(\E s \in DOMAIN sends, ok \in BOOLEAN : SummarizeResume(s, ok))
    /\ WF_vars(\E s \in DOMAIN sends, o \in PostOutcomes : PostReturns(s, o))

SpecThrottlerLive == Init /\ [][SendNext]_vars /\ SendFairness


\* -------------------------------------------------------- AnLoop interpreter
\* Text is a sequence of tokens: the two tags, the characters '#', ';', '='
\* and ' ', and words (runs of other characters).
TagOpen == "<Loops>"
TagClose == "</Loops>"
Marker == <<"#", "NotResp">>
ContentKey == <<"content">>
QueryKey == <<"query">>
UserIdKey == <<"user_id">>
GroupIdKey == <<"group_id">>

\* The user whose message is handled, and another member of the group.
Sender == <<"u1">>
OtherSender == <<"u2">>

\* What make_decision passes to execute_anloop_sequence: full_context.user_id
\* and full_context.session_id, the group id for a group message and the
\* user id for a private one.
CallerUserId == context_user_id
CallerGroupId == IF inbound = "private" THEN Sender ELSE <<"g1">>

\* str.find: index of the first tok at or after from, 0 when there is none.
FirstIndex(s, tok, from) ==
    LET I == {i \in from..Len(s) : s[i] = tok}
    IN IF I = {} THEN 0 ELSE CHOOSE i \in I : \A j \in I : i <= j

\* a missing closing tag taken as the end of the text
LoopsMatchToEnd(t) ==
    LET o == FirstIndex(t, TagOpen, 1)
        c == IF o = 0 THEN 0 ELSE FirstIndex(t, TagClose, o + 1)
    IN IF o = 0 THEN <<>>
       ELSE IF c = 0 THEN <<SubSeq(t, o + 1, Len(t))>>
       ELSE <<SubSeq(t, o + 1, c - 1)>>

\* re.search(r'<Loops>(.*?)</Loops>', anloop_string, re.DOTALL): <<>> for no
\* match, else <<group(1)>>, the text between the first opening tag and the
\* first closing tag after it.
LoopsMatch(t) ==
    LET o == FirstIndex(t, TagOpen, 1)
        c == IF o = 0 THEN 0 ELSE FirstIndex(t, TagClose, o + 1)
    IN IF c = 0 THEN <<>> ELSE <<SubSeq(t, o + 1, c - 1)>>

\* str.strip(chars)
StripChars(s, cs) ==
    LET K == {i \in 1..Len(s) : s[i] \notin cs}
    IN IF K = {} THEN <<>>
       ELSE SubSeq(s, CHOOSE i \in K : \A j \in K : i <= j,
                      CHOOSE i \in K : \A j \in K : i >= j)

\* str.strip()
Strip(s) == StripChars(s, {" "})

\* the marker looked for anywhere in the block
ContainsMarker(s, p) ==
    \E i \in 1..Len(s) : i + Len(p) - 1 <= Len(s) /\ SubSeq(s, i, i + Len(p) - 1) = p

\* str.startswith
StartsWith(s, p) == Len(s) >= Len(p) /\ SubSeq(s, 1, Len(p)) = p

\* str.replace(p, "", 1)
ReplaceFirst(s, p) ==
    LET I == {i \in 1..Len(s) : i + Len(p) - 1 <= Len(s) /\ SubSeq(s, i, i + Len(p) - 1) = p}
    IN IF I = {} THEN s
       ELSE LET i == CHOOSE k \in I : \A j \in I : k <= j
            IN SubSeq(s, 1, i - 1) \o SubSeq(s, i + Len(p), Len(s))

\* str.split(sep)
RECURSIVE SplitOn(_, _)
SplitOn(s, sep) ==
    LET i == FirstIndex(s, sep, 1)
    IN IF i = 0 THEN <<s>>
       ELSE <<SubSeq(s, 1, i - 1)>> \o SplitOn(SubSeq(s, i + 1, Len(s)), sep)

\* str.split(sep, 1)
SplitFirst(s, sep) ==
    LET i == FirstIndex(s, sep, 1)
    IN IF i = 0 THEN <<s>> ELSE <<SubSeq(s, 1, i - 1), SubSeq(s, i + 1, Len(s))>>

\* `tc.strip() and tc.startswith('#')` of the list comprehension
KeepSegment(tc) == Strip(tc) # <<>> /\ tc[1] = "#"

\* [tc.strip() for tc in loop_content.split(';') if ...]
ToolCallsStr(loop_content) ==
    LET kept == SelectSeq(SplitOn(loop_content, ";"), KeepSegment)
    IN [i \in 1..Len(kept) |-> Strip(kept[i])]

\* the value stored as it was written
ParamValueRaw(v) == v

\* pair.strip() / value.strip()
ParamValue(v) == Strip(v)

\* the loop over param_pairs of _parse_tool_call
RECURSIVE ParamsFrom(_, _, _)
ParamsFrom(pairs, i, acc) ==
    IF i > Len(pairs) THEN acc
    ELSE LET pair == pairs[i] IN
         ParamsFrom(pairs, i + 1,
            IF "=" \in Range(pair)
            THEN LET kv == SplitFirst(pair, "=")
                 IN Put(acc, Strip(kv[1]), ParamValue(kv[2]))
            ELSE IF i = 1 THEN Put(acc, ContentKey, ParamValue(pair))
            ELSE acc)

\* the empty dictionary left as it is
ParseToolCallNoFallback(tool_str) ==
    LET parts == SplitFirst(Strip(tool_str), "=")
        tool_name == IF parts[1] = <<>> THEN <<>> ELSE Tail(parts[1])
        p0 == IF Len(parts) > 1
              THEN ParamsFrom(SplitOn(parts[2], ";"), 1, <<>>)
              ELSE <<>>
    IN [name |-> tool_name,
        params |-> IF ContentKey \in DOMAIN p0 /\ p0[ContentKey] = <<>>
                   THEN Drop(p0, ContentKey) ELSE p0]

\* _parse_tool_call(tool_str) -> (tool_name, params)
ParseToolCall(tool_str) ==
    LET parts == SplitFirst(Strip(tool_str), "=")
        tool_name == IF parts[1] = <<>> THEN <<>> ELSE Tail(parts[1])
        p0 == IF Len(parts) > 1
              THEN ParamsFrom(SplitOn(parts[2], ";"), 1, <<>>)
              ELSE <<>>
        p1 == IF ContentKey \in DOMAIN p0 /\ p0[ContentKey] = <<>>
              THEN Drop(p0, ContentKey) ELSE p0
        p2 == IF DOMAIN p1 = {} /\ Len(parts) > 1
              THEN Put(p1, QueryKey, parts[2]) ELSE p1
    IN [name |-> tool_name, params |-> p2]

\* params["user_id"] = user_id; if group_id: params["group_id"] = group_id
Inject(params) ==
    LET p == Put(params, UserIdKey, CallerUserId)
    IN IF CallerGroupId # <<>> THEN Put(p, GroupIdKey, CallerGroupId) ELSE p

\* str.lower() on the words of the model; replace('-', '_') changes none of
\* them.
Lower(w) ==
    CASE w \in {"Search", "SEARCH", "search"} -> "search"
      [] w \in {"Memo", "memo"} -> "memo"
      [] w \in {"NotResp", "notresp"} -> "notresp"
      [] w \in {"Bogus", "bogus"} -> "bogus"
      [] OTHER -> w

\* The _execute_* methods of ToolExecutor that the model's names can reach.
Handlers == {"search", "memo", "notresp"}

\* f"_execute_{tool_name.lower().replace('-', '_')}", without the prefix
MethodName(tool_name) == IF Len(tool_name) = 1 THEN Lower(tool_name[1]) ELSE "?"

\* getattr(self, method_name, self._execute_unknown)
MethodFor(tool_name) ==
    IF MethodName(tool_name) \in Handlers THEN MethodName(tool_name) ELSE "unknown"

\* no except clause around the handler
CaughtNone == {}

\* `except Exception` of dispatch_tool: what a handler raises is caught.
Caught == {"raised"}

\* What awaiting a handler can end in: it returns a value or raises; the
\* handler of unknown tools only returns its message.
HandlerOutcomes(method) ==
    IF method = "unknown" THEN {"returned"} ELSE {"returned", "raised"}

\* Python's None
NoneValue == "None"

\* a failure that keeps a payload beside its error
ErrorResultWithPayload(err) == [success |-> FALSE, result |-> err, error |-> err]

\* ToolExecutionResult(False, error=...): result keeps its default, None
ErrorResult(err) == [success |-> FALSE, result |-> NoneValue, error |-> err]

\* ToolExecutionResult(True, result=result): error keeps its default, None
OkResult(value) == [success |-> TRUE, result |-> value, error |-> NoneValue]

\* `if not user_id` of dispatch_tool: the key is missing or its value empty
NoUserId(tool_params) ==
    UserIdKey \notin DOMAIN tool_params \/ tool_params[UserIdKey] = <<>>

\* What the handlers return: the handler of unknown tools its message, the
\* others a text of their own.
HandlerValue(method) == IF method = "unknown" THEN "unknown_tool_text" ELSE "text"

\* dispatch_tool(tool_name, tool_params) -> ToolExecutionResult, outcome
\* being how the awaited handler ended
DispatchTool(tool_name, tool_params, outcome) ==
    IF NoUserId(tool_params) THEN ErrorResult("user_id_required")
    ELSE IF outcome = "returned" THEN OkResult(HandlerValue(MethodFor(tool_name)))
    ELSE ErrorResult("internal_error")

\* the dispatch started and not awaited
AfterBeginNotAwaited == "dispatching"

\* `result = await self.tool_executor.dispatch_tool(...)`: the loop is
\* suspended until the dispatch returns.
AfterBegin == "awaiting"

\* The segments texts are built from.
Segments ==
    { <<"#", "Search", "=", "weather">>,
      <<"#", "NotResp">>,
      <<"#", "Memo", "=", "text">>,
      <<"target_memo", "=", "Title">>,
      <<"#", "Search", "=">>,
      <<"#", "Bogus", "=", "weather">>,
      <<" ", "#", "Search", "=", "weather">>,
      <<"#", "SEARCH", "=", " ", "weather">>,
      <<"#", "Memo">> }

RECURSIVE Contents(_)
Contents(n) ==
    IF n = 0 THEN {<<>>}
    ELSE Contents(n - 1) \cup
         {c \o (IF c = <<>> THEN <<>> ELSE <<";">>) \o sg :
              c \in Contents(n - 1), sg \in Segments}

Texts ==
    UNION { { <<TagOpen>> \o c \o <<TagClose>>,
              <<"hi", TagOpen, " ">> \o c \o <<" ", TagClose, "hi">>,
              <<TagOpen>> \o c,
              c } : c \in Contents(MaxSegs) }

\* execute_anloop_sequence up to the first dispatch: the block is matched,
\* the marker stripped and the segments split; with no block, or no call in
\* it, the call returns at once.
ExecuteBegin(t) ==
    LET m == LoopsMatch(t)
        loop_content == Strip(m[1])
        marked == StartsWith(loop_content, Marker)
        rest == IF marked
                THEN StripChars(ReplaceFirst(loop_content, Marker), {";", " "})
                ELSE loop_content
        tcs == ToolCallsStr(rest)
    IN
    /\ ipc = "idle"
    /\ anloop_string' = t
    /\ results' = <<>>
    /\ dispatchLog' = <<>>
    /\ sequenceLog' = Append(sequenceLog, nInbound)
    /\ IF m = <<>>
       THEN /\ not_resp' = FALSE
            /\ tool_calls_str' = <<>>
            /\ idx' = 0
            /\ ipc' = "returned"
       ELSE /\ not_resp' = marked
            /\ tool_calls_str' = tcs
            /\ idx' = 1
            /\ ipc' = IF tcs = <<>> THEN "returned" ELSE "dispatching"
    /\ UNCHANGED notLoopVars

\* The loop body up to `await self.tool_executor.dispatch_tool(...)`.
DispatchBegin ==
    /\ ipc = "dispatching"
    /\ dispatchLog' = Append(dispatchLog, [ev |-> "begin", i |-> idx])
    /\ ipc' = AfterBegin
    /\ UNCHANGED <<anloop_string, tool_calls_str, idx, results, not_resp, sequenceLog,
                   notLoopVars>>

\* dispatch_tool returns (or lets an exception through) and the loop goes on:
\* the result is appended and the next segment, if any, is taken.
DispatchReturn(outcome) ==
    LET call == ParseToolCall(tool_calls_str[idx])
        params == Inject(call.params)
        method == MethodFor(call.name)
    IN
    /\ ipc = "awaiting"
    /\ idx <= Len(tool_calls_str)
    /\ outcome \in HandlerOutcomes(method)
    /\ dispatchLog' = Append(dispatchLog, [ev |-> "return", i |-> idx])
    /\ IF outcome = "raised" /\ outcome \notin Caught
       THEN /\ ipc' = "raised"
            /\ UNCHANGED <<results, idx>>
       ELSE /\ results' = Append(results,
                   [name |-> call.name, method_name |-> MethodName(call.name),
                    method |-> method, params |-> params,
                    success |-> DispatchTool(call.name, params, outcome).success,
                    result |-> DispatchTool(call.name, params, outcome).result,
                    error |-> DispatchTool(call.name, params, outcome).error,
                    outcome |-> outcome])
            /\ idx' = idx + 1
            /\ ipc' = IF idx >= Len(tool_calls_str) THEN "returned" ELSE "dispatching"
    /\ UNCHANGED <<anloop_string, tool_calls_str, not_resp, sequenceLog, notLoopVars>>

LoopNext ==
    \/ ipc = "idle" /\ \E t \in Texts : ExecuteBegin(t)
    \/ DispatchBegin
    \/ \E o \in {"returned", "raised"} : DispatchReturn(o)

SpecInterpreter == Init /\ [][LoopNext]_vars

\* -------------------------------------------------- _parse_tool_call alone
\* What in _parse_tool_call could raise: `key, value = pair.split('=', 1)`
\* needs two values to unpack. parts[0] always exists and parts[0][1:] is a
\* slice, which is empty for an empty string.
RECURSIVE UnpackFails(_, _)
UnpackFails(pairs, i) ==
    IF i > Len(pairs) THEN FALSE
    ELSE \/ "=" \in Range(pairs[i]) /\ Len(SplitFirst(pairs[i], "=")) # 2
         \/ UnpackFails(pairs, i + 1)

ParseRaises(tool_str) ==
    LET parts == SplitFirst(Strip(tool_str), "=")
    IN Len(parts) > 1 /\ UnpackFails(SplitOn(parts[2], ";"), 1)

\* The characters segments are written with.
SegTokens == {"#", "=", ";", " ", "Search", "k"}

RECURSIVE SegTexts(_)
SegTexts(n) ==
    IF n = 0 THEN {<<>>}
    ELSE SegTexts(n - 1) \cup {Append(t, c) : t \in SegTexts(n - 1), c \in SegTokens}

\* _parse_tool_call(tool_str) called with any text.
ParseCall(tool_str) ==
    /\ parsed.op = "none"
    /\ parsed' = IF ParseRaises(tool_str)
                 THEN [NoParse EXCEPT !.op = "parsed", !.tool_str = tool_str,
                                      !.raised = TRUE]
                 ELSE [op |-> "parsed", tool_str |-> tool_str,
                       name |-> ParseToolCall(tool_str).name,
                       params |-> ParseToolCall(tool_str).params,
                       raised |-> FALSE]
    /\ UNCHANGED <<dispatched, notParseVars>>

\* The caller is done with what the call gave.
ParseDone ==
    /\ parsed.op = "parsed"
    /\ parsed' = NoParse
    /\ UNCHANGED <<dispatched, notParseVars>>

ParseNext ==
    \/ \E t \in SegTexts(MaxSegLen) : ParseCall(t)
    \/ ParseDone

SpecParser == Init /\ [][ParseNext]_vars

\* ------------------------------------------------------ dispatch_tool alone
\* The tool names and parameter dictionaries dispatch_tool is called with.
ToolNames == {<<"Search">>, <<"SEARCH">>, <<"Memo">>, <<"NotResp">>, <<"Bogus">>, <<>>}

ParamChoices(key, values) ==
    {<<>>} \cup {Put(<<>>, key, v) : v \in values}

Merge(f, g) == [k \in DOMAIN f \cup DOMAIN g |-> IF k \in DOMAIN g THEN g[k] ELSE f[k]]

ToolParams ==
    {Merge(Merge(a, b), c) :
        a \in ParamChoices(UserIdKey, {<<>>, <<"u1">>, <<"u2">>}),
        b \in ParamChoices(ContentKey, {<<"weather">>, <<"text">>}),
        c \in ParamChoices(QueryKey, {<<"weather">>})}

\* dispatch_tool(tool_name, tool_params) called and returning; without a
\* user id no handler is awaited.
DispatchCall(tool_name, tool_params, outcome) ==
    LET method == IF NoUserId(tool_params) THEN "" ELSE MethodFor(tool_name) IN
    /\ dispatched.op = "none"
    /\ IF NoUserId(tool_params) THEN outcome = "none"
       ELSE outcome \in HandlerOutcomes(method)
    /\ dispatched' = [op |-> "returned", tool_name |-> tool_name,
                      tool_params |-> tool_params, method |-> method,
                      outcome |-> outcome,
                      res |-> DispatchTool(tool_name, tool_params, outcome)]
    /\ UNCHANGED <<parsed, notParseVars>>

\* The caller is done with the result.
DispatchDone ==
    /\ dispatched.op = "returned"
    /\ dispatched' = NoDispatch
    /\ UNCHANGED <<parsed, notParseVars>>

DispatcherNext ==
    \/ \E n \in ToolNames, p \in ToolParams, o \in {"none", "returned", "raised"} :
          DispatchCall(n, p, o)
    \/ DispatchDone

SpecDispatcher == Init /\ [][DispatcherNext]_vars

\* ----------------------------------------------- deferred jobs (Scheduler)
\* job_id = f"pending_{user_id}_{int(run_time.timestamp())}"
JobId(u, t) == <<u, t>>

\* add_job(func=lambda: None, trigger=DateTrigger(run_date=run_time), id=job_id)
NoOpJob(u, t) == [id |-> JobId(u, t), run |-> t, func |-> "lambda", payload |-> ""]

\* func=self.send_message_callback (#BingMsg) or the nested function
\* review_notebook_job (#BingNote)
CallbackFor(p) == IF p = "msg" THEN "send_message_callback" ELSE "review_notebook_job"

\* job.modify(func=..., args=[...], name=...)
Configured(job, p) == [job EXCEPT !.func = CallbackFor(p), !.payload = p]

\* The job store is an SQLAlchemyJobStore: a job is written to it pickled,
\* with a textual reference to its callable. A lambda and a nested function
\* have no such reference and the write raises ValueError ("This Job cannot
\* be serialized since the reference to its callable ... could not be
\* determined"). A bound method is written together with its instance (the
\* QQBot); botPickles says whether that instance can be pickled.
Serializable(job, botPickles) == job.func = "send_message_callback" /\ botPickles

\* apscheduler.start(): _real_add_job for every pending job in turn, up to the
\* first one whose write raises. add_job with replace_existing=True writes
\* over a stored job of the same id.
RECURSIVE RealAddAll(_, _, _, _)
RealAddAll(pend, k, store, botPickles) ==
    IF k > Len(pend) THEN [store |-> store, done |-> TRUE]
    ELSE IF ~Serializable(pend[k], botPickles) THEN [store |-> store, done |-> FALSE]
    ELSE RealAddAll(pend, k + 1, Put(store, pend[k].id, pend[k]), botPickles)

\* the entry read and left in place
PointerKept(ptrs, u) == ptrs

\* every user's entry removed
PointerAfterClear(ptrs, u) == [x \in DOMAIN ptrs |-> {}]

\* self._pending_user_tasks.pop(user_id, None)
PointerAfterPop(ptrs, u) == [ptrs EXCEPT ![u] = {}]

\* What a call observes of the store, for jobOp.
JobState == [ptrs |-> _pending_user_tasks, pend |-> pendingJobs, store |-> jobStore]

\* register_send_message_callback(callback)
RegisterSendMessageCallback ==
    /\ ~send_message_callback
    /\ send_message_callback' = TRUE
    /\ jobOp' = NoJobOp
    /\ UNCHANGED <<apState, startCalled, pendingJobs, jobStore, _pending_user_tasks,
                   wall, restarted, beforeRestart, firedLog, jobCalls, notJobVars>>

\* Scheduler.start(): self.apscheduler.start() is its first action; when it
\* raises, the scheduler stays stopped and the pending list is kept.
SchedulerStart(botPickles) ==
    LET r == RealAddAll(pendingJobs, 1, jobStore, botPickles) IN
    /\ ~startCalled
    /\ startCalled' = TRUE
    /\ jobStore' = r.store
    /\ IF r.done
       THEN apState' = "running" /\ pendingJobs' = <<>>
       ELSE UNCHANGED <<apState, pendingJobs>>
    /\ jobOp' = NoJobOp
    /\ UNCHANGED <<_pending_user_tasks, wall, restarted, beforeRestart, firedLog,
                   jobCalls, send_message_callback, notJobVars>>

\* add_bing_me_task(user_id, run_time). On a stopped scheduler add_job only
\* queues the job; on a running one it writes the job to the store, which
\* raises for the lambda before line 102 records the job id.
AddBingMeTask(u, t) ==
    /\ Len(jobCalls) < MaxJobCalls
    /\ t > wall
    /\ IF apState = "running"
       THEN /\ jobCalls' = Append(jobCalls,
                   [op |-> "create", user |-> u, id |-> JobId(u, t), payload |-> "",
                    res |-> "raised"])
            /\ jobOp' = [NoJobOp EXCEPT !.op = "create", !.user = u, !.res = "raised",
                           !.hadPointer = (_pending_user_tasks[u] # {}),
                           !.before = JobState]
            /\ UNCHANGED <<pendingJobs, _pending_user_tasks>>
       ELSE /\ pendingJobs' = Append(pendingJobs, NoOpJob(u, t))
            /\ _pending_user_tasks' = [_pending_user_tasks EXCEPT ![u] = {JobId(u, t)}]
            /\ jobCalls' = Append(jobCalls,
                   [op |-> "create", user |-> u, id |-> JobId(u, t), payload |-> "",
                    res |-> "ok"])
            /\ jobOp' = [NoJobOp EXCEPT !.op = "create", !.user = u, !.res = "ok",
                           !.hadPointer = (_pending_user_tasks[u] # {}),
                           !.before = JobState]
    /\ UNCHANGED <<apState, startCalled, jobStore, wall, restarted, beforeRestart,
                   firedLog, send_message_callback, notJobVars>>

\* the job is rewritten whether or not a callback is registered
CallbackNotChecked(p) == FALSE

\* if not self.send_message_callback, of update_pending_task_with_message
CallbackMissing(p) == p = "msg" /\ ~send_message_callback

\* update_pending_task_with_message / _with_notebook(user_id, ...): pop the
\* user's job id; without one return the error string. get_job looks the job
\* up among the pending jobs of a stopped scheduler, in the store of a
\* running one; without a job, and for a message without a registered
\* callback, return an error string; job.modify rewrites the job where it is.
UpdatePendingTask(u, p, botPickles) ==
    LET ptr == _pending_user_tasks[u]
        id == CHOOSE x \in ptr : TRUE
        K == {k \in 1..Len(pendingJobs) : pendingJobs[k].id = id}
        k1 == CHOOSE k \in K : \A j \in K : k <= j
        call == [op |-> "configure", user |-> u, id |-> <<>>, payload |-> p,
                 res |-> "no_pending"]
        seen == [NoJobOp EXCEPT !.op = "configure", !.user = u,
                    !.hadPointer = (ptr # {}), !.before = JobState]
    IN
    /\ Len(jobCalls) < MaxJobCalls
    /\ _pending_user_tasks' = PointerAfterPop(_pending_user_tasks, u)
    /\ IF ptr = {}
       THEN /\ jobCalls' = Append(jobCalls, call)
            /\ jobOp' = [seen EXCEPT !.res = "no_pending"]
            /\ UNCHANGED <<pendingJobs, jobStore>>
       ELSE IF apState = "stopped"
       THEN IF K = {}
            THEN /\ jobCalls' = Append(jobCalls, [call EXCEPT !.id = id, !.res = "expired"])
                 /\ jobOp' = [seen EXCEPT !.res = "expired"]
                 /\ UNCHANGED <<pendingJobs, jobStore>>
            ELSE IF CallbackMissing(p)
            THEN /\ jobCalls' = Append(jobCalls, [call EXCEPT !.id = id, !.res = "no_callback"])
                 /\ jobOp' = [seen EXCEPT !.res = "no_callback"]
                 /\ UNCHANGED <<pendingJobs, jobStore>>
            ELSE /\ pendingJobs' = [pendingJobs EXCEPT ![k1] = Configured(@, p)]
                 /\ jobCalls' = Append(jobCalls, [call EXCEPT !.id = id, !.res = "ok"])
                 /\ jobOp' = [seen EXCEPT !.res = "ok"]
                 /\ UNCHANGED jobStore
       ELSE IF id \notin DOMAIN jobStore
            THEN /\ jobCalls' = Append(jobCalls, [call EXCEPT !.id = id, !.res = "expired"])
                 /\ jobOp' = [seen EXCEPT !.res = "expired"]
                 /\ UNCHANGED <<pendingJobs, jobStore>>
            ELSE IF CallbackMissing(p)
            THEN /\ jobCalls' = Append(jobCalls, [call EXCEPT !.id = id, !.res = "no_callback"])
                 /\ jobOp' = [seen EXCEPT !.res = "no_callback"]
                 /\ UNCHANGED <<pendingJobs, jobStore>>
            ELSE IF Serializable(Configured(jobStore[id], p), botPickles)
            THEN /\ jobStore' = [jobStore EXCEPT ![id] = Configured(@, p)]
                 /\ jobCalls' = Append(jobCalls, [call EXCEPT !.id = id, !.res = "ok"])
                 /\ jobOp' = [seen EXCEPT !.res = "ok"]
                 /\ UNCHANGED pendingJobs
            ELSE /\ jobCalls' = Append(jobCalls, [call EXCEPT !.id = id, !.res = "raised"])
                 /\ jobOp' = [seen EXCEPT !.res = "raised"]
                 /\ UNCHANGED <<pendingJobs, jobStore>>
    /\ UNCHANGED <<apState, startCalled, wall, restarted, beforeRestart, firedLog,
                   send_message_callback, notJobVars>>

\* The running scheduler processes a stored job whose run date has come: the
\* job is run if this is its run date and dropped as missed if the date is
\* past; a date-triggered job is removed from the store either way.
JobDue(id) ==
    /\ apState = "running"
    /\ id \in DOMAIN jobStore
    /\ jobStore[id].run <= wall
    /\ jobStore' = Drop(jobStore, id)
    /\ firedLog' = IF jobStore[id].run = wall
                   THEN Append(firedLog, [id |-> id, at |-> wall,
                                          func |-> jobStore[id].func,
                                          payload |-> jobStore[id].payload])
                   ELSE firedLog
    /\ jobOp' = NoJobOp
    /\ UNCHANGED <<apState, startCalled, pendingJobs, _pending_user_tasks, wall,
                   restarted, beforeRestart, jobCalls, send_message_callback, notJobVars>>

\* A minute passes. The process calls Scheduler.start() as it comes up, and a
\* running scheduler runs the jobs that are due before time moves on.
WallTick ==
    /\ startCalled
    /\ wall < MaxWall
    /\ apState = "running" => \A id \in DOMAIN jobStore : jobStore[id].run > wall
    /\ wall' = wall + 1
    /\ jobOp' = NoJobOp
    /\ UNCHANGED <<apState, startCalled, pendingJobs, jobStore, _pending_user_tasks,
                   restarted, beforeRestart, firedLog, jobCalls, send_message_callback, notJobVars>>

\* Scheduler.stop(): self.apscheduler.shutdown(). Event tasks still in
\* flight go on calling the scheduler, which queues what they add.
SchedulerStop ==
    /\ apState = "running"
    /\ apState' = "stopped"
    /\ jobOp' = NoJobOp
    /\ UNCHANGED <<startCalled, pendingJobs, jobStore, _pending_user_tasks, wall,
                   restarted, beforeRestart, firedLog, jobCalls, send_message_callback, notJobVars>>

\* The process ends and a new one is constructed (Scheduler.__init__): what
\* was in memory is gone, the job store's database stays.
ProcessRestart ==
    /\ ~restarted
    /\ restarted' = TRUE
    /\ beforeRestart' = {j \in Range(pendingJobs) \cup {jobStore[id] : id \in DOMAIN jobStore} :
                             j.run > wall}
    /\ apState' = "stopped"
    /\ startCalled' = FALSE
    /\ pendingJobs' = <<>>
    /\ _pending_user_tasks' = [u \in Users |-> {}]
    /\ send_message_callback' = FALSE
    /\ jobOp' = NoJobOp
    /\ UNCHANGED <<jobStore, wall, firedLog, jobCalls, notJobVars>>

JobNext ==
    \/ RegisterSendMessageCallback
    \/ \E b \in BOOLEAN : SchedulerStart(b)
    \/ \E u \in Users, t \in 1..MaxRunTime : AddBingMeTask(u, t)
    \/ \E u \in Users, p \in Payloads, b \in BOOLEAN : UpdatePendingTask(u, p, b)
    \/ \E id \in DOMAIN jobStore : JobDue(id)
    \/ WallTick
    \/ SchedulerStop
    \/ ProcessRestart

SpecJobStore == Init /\ [][JobNext]_vars

\* ------------------------------------------ go-cqhttp watchdog (Scheduler)
\* now - self.last_heartbeat_time > self.heartbeat_timeout, accepted at the
\* timeout itself
LostAtTimeout(gap) == gap >= heartbeat_timeout

\* now - self.last_heartbeat_time > self.heartbeat_timeout
Lost(gap) == gap > heartbeat_timeout

\* The sleeps that are inside the try of the loop.
InTry == {"grace_sleep", "settle_sleep"}

\* monitor_task.cancel() that leaves the task where it is
AfterCancelIgnored(task, caught) == task

\* monitor_task.cancel(): CancelledError is raised at the sleep the task is
\* in and ends the task; where CancelledError is an Exception (Python before
\* 3.8) the except of the loop catches it at a sleep inside the try and the
\* task goes on to the sleep of line 82.
AfterCancel(task, caught) ==
    IF task \in {"none", "done"} THEN task
    ELSE IF caught /\ task \in InTry THEN "poll_sleep"
    ELSE "done"

\* the heartbeat baseline is never reset by a restart
RestartNeverSucceeded(startOutcome) == FALSE

\* if self.process_manager.start(): only a start that returned True resets
\* the heartbeat time and is given the settle sleep
RestartSucceeded(startOutcome) == startOutcome = "true"

\* an exception in a check that ends the monitor task
AfterRaiseEnds == "done"

\* except Exception: the error is logged and the loop goes on to the sleep
\* of line 82
AfterRaise == "poll_sleep"

\* The restart cycles begun so far.
WatchdogStops == {i \in 1..Len(procCalls) :
                     procCalls[i].by = "watchdog" /\ procCalls[i].call = "stop"}

\* One call of the process manager, as the log keeps it.
ProcCall(call, by, outcome, gap) ==
    [call |-> call, by |-> by, at |-> clock, outcome |-> outcome, gap |-> gap,
     running |-> running, task |-> monitor_task]

\* Scheduler.start(): process_manager.start(), update_heartbeat(), the
\* monitor task is created (it first sleeps heartbeat_timeout), running = True.
SupervisorStart(started) ==
    /\ ~running /\ monitor_task = "none" /\ stopping = "idle"
    /\ procCalls' = Append(procCalls,
           ProcCall("start", "supervisor", IF started THEN "true" ELSE "false", 0))
    /\ last_heartbeat_time' = clock
    /\ monitor_task' = "initial_sleep"
    /\ wakeAt' = clock + heartbeat_timeout
    /\ running' = TRUE
    /\ watchOp' = NoWatchOp
    /\ UNCHANGED <<clock, stopping, gapExceeded, notWatchVars>>

\* handle_event: a heartbeat meta event -> update_heartbeat()
Heartbeat ==
    /\ monitor_task # "none"
    /\ stopping # "done"
    /\ clock % HeartbeatEvery = 0
    /\ last_heartbeat_time # clock
    /\ last_heartbeat_time' = clock
    /\ watchOp' = NoWatchOp
    /\ UNCHANGED <<running, monitor_task, wakeAt, clock, stopping, procCalls,
                   gapExceeded, notWatchVars>>

\* A second passes; a sleep that has run out is resumed first, and so is a
\* stop() whose awaited monitor task has ended. Time is followed from the
\* start of the scheduler to the end of its stop().
ClockTick ==
    /\ monitor_task # "none"
    /\ clock < MaxWatchClock
    /\ monitor_task # "done"
    /\ clock < wakeAt
    /\ clock' = clock + 1
    /\ gapExceeded' = (gapExceeded \/ (running /\ clock + 1 - last_heartbeat_time > heartbeat_timeout))
    /\ watchOp' = NoWatchOp
    /\ UNCHANGED <<running, last_heartbeat_time, monitor_task, wakeAt, stopping,
                   procCalls, notWatchVars>>

\* The monitor resumes from the first sleep or from the sleep between
\* checks: the loop ends when running is false; otherwise one check. A lost
\* heartbeat calls process_manager.stop() and sleeps the grace interval; an
\* exception is logged by the except and the loop sleeps to the next check.
MonitorCheck(stopOutcome) ==
    LET gap == clock - last_heartbeat_time IN
    /\ monitor_task \in {"initial_sleep", "poll_sleep"}
    /\ clock = wakeAt
    /\ (running /\ Lost(gap)) => Cardinality(WatchdogStops) < MaxRestartCycles
    /\ IF ~running
       THEN /\ monitor_task' = "done"
            /\ watchOp' = [op |-> "exit", gap |-> gap, outcome |-> ""]
            /\ UNCHANGED <<wakeAt, procCalls>>
       ELSE IF Lost(gap)
       THEN /\ procCalls' = Append(procCalls, ProcCall("stop", "watchdog", stopOutcome, gap))
            /\ IF stopOutcome = "raised"
               THEN monitor_task' = AfterRaise /\ wakeAt' = clock + POLL_INTERVAL
               ELSE monitor_task' = "grace_sleep" /\ wakeAt' = clock + RESTART_GRACE
            /\ watchOp' = [op |-> "check", gap |-> gap, outcome |-> stopOutcome]
       ELSE /\ monitor_task' = "poll_sleep"
            /\ wakeAt' = clock + POLL_INTERVAL
            /\ watchOp' = [op |-> "check", gap |-> gap, outcome |-> "alive"]
            /\ UNCHANGED procCalls
    /\ UNCHANGED <<running, last_heartbeat_time, clock, stopping, gapExceeded,
                   notWatchVars>>

\* After the grace interval: process_manager.start(). True: update_heartbeat()
\* and the settle sleep; False: logged; raised: logged by the except. The
\* last two go straight to the sleep between checks.
MonitorRestart(startOutcome) ==
    /\ monitor_task = "grace_sleep"
    /\ clock = wakeAt
    /\ procCalls' = Append(procCalls, ProcCall("start", "watchdog", startOutcome,
                                               clock - last_heartbeat_time))
    /\ IF RestartSucceeded(startOutcome)
       THEN /\ last_heartbeat_time' = clock
            /\ monitor_task' = "settle_sleep"
            /\ wakeAt' = clock + RESTART_SETTLE
       ELSE /\ monitor_task' = IF startOutcome = "raised" THEN AfterRaise ELSE "poll_sleep"
            /\ wakeAt' = clock + POLL_INTERVAL
            /\ UNCHANGED last_heartbeat_time
    /\ watchOp' = [op |-> "restart", gap |-> clock - last_heartbeat_time,
                   outcome |-> startOutcome]
    /\ UNCHANGED <<running, clock, stopping, gapExceeded, notWatchVars>>

\* After the settle sleep the try is left and the sleep between checks begins.
MonitorSettled ==
    /\ monitor_task = "settle_sleep"
    /\ clock = wakeAt
    /\ monitor_task' = "poll_sleep"
    /\ wakeAt' = clock + POLL_INTERVAL
    /\ watchOp' = NoWatchOp
    /\ UNCHANGED <<running, last_heartbeat_time, clock, stopping, procCalls,
                   gapExceeded, notWatchVars>>

\* Scheduler.stop() up to "await self.monitor_task": running = False and the
\* monitor task is cancelled.
SupervisorStopBegin(caught) ==
    /\ running
    /\ stopping = "idle"
    /\ running' = FALSE
    /\ monitor_task' = AfterCancel(monitor_task, caught)
    /\ wakeAt' = IF AfterCancel(monitor_task, caught) = "poll_sleep"
                 THEN clock + POLL_INTERVAL ELSE wakeAt
    /\ stopping' = "awaiting"
    /\ watchOp' = [op |-> "stop_begin", gap |-> 0, outcome |-> monitor_task]
    /\ UNCHANGED <<last_heartbeat_time, clock, procCalls, gapExceeded, notWatchVars>>

\* Scheduler.stop() once the awaited monitor task has ended:
\* apscheduler.shutdown(), process_manager.stop().
SupervisorStopEnd ==
    /\ stopping = "awaiting"
    /\ monitor_task = "done"
    /\ procCalls' = Append(procCalls, ProcCall("stop", "shutdown", "returned", 0))
    /\ stopping' = "done"
    /\ watchOp' = NoWatchOp
    /\ UNCHANGED <<running, last_heartbeat_time, monitor_task, wakeAt, clock,
                   gapExceeded, notWatchVars>>

WatchNext ==
    \/ \E r \in BOOLEAN : SupervisorStart(r)
    \/ Heartbeat
    \/ ClockTick
    \/ \E o \in {"returned", "raised"} : MonitorCheck(o)
    \/ \E o \in {"true", "false", "raised"} : MonitorRestart(o)
    \/ MonitorSettled
    \/ \E c \in BOOLEAN : SupervisorStopBegin(c)
    \/ SupervisorStopEnd

SpecWatchdog == Init /\ [][WatchNext]_vars

\* ------------------------------- from the event handler to the reply (QQBot,
\* AnZaiBot, AIInferenceLayer)
\* anloop_part = loops_match.group(0): the block with its tags, or nothing
AnloopPart(t) ==
    LET o == FirstIndex(t, TagOpen, 1)
        c == IF o = 0 THEN 0 ELSE FirstIndex(t, TagClose, o + 1)
    IN IF c = 0 THEN <<>> ELSE SubSeq(t, o, c)

\* direct_reply_part = response_text.replace(anloop_part, "").strip(), the
\* whole answer when there is no block
DirectReplyPart(t) ==
    LET o == FirstIndex(t, TagOpen, 1)
        c == IF o = 0 THEN 0 ELSE FirstIndex(t, TagClose, o + 1)
    IN IF c = 0 THEN t
       ELSE Strip(SubSeq(t, 1, o - 1) \o SubSeq(t, c + 1, Len(t)))

\* a decision that answers whatever the flag says
ShouldRespondAlways(not_resp_flag) == TRUE

\* `if not not_resp_flag:` of make_decision: a background sequence gives
\* DecisionResult(..., should_respond=False)
ShouldRespond(not_resp_flag) == ~not_resp_flag

\* successful_results = [res.result for res in tool_results if res.success and res.result]
SuccessfulResults(rs) == SelectSeq(rs, LAMBDA r : r.success)

\* The flash branch with no text: the payload given to the Pro model is the
\* joined results, or "后台任务已启动。" when there is none; the answer of the
\* Pro model is the reply.
FlashFallbackKind(successes) ==
    IF successes > 0 THEN "pro_summary" ELSE "pro_summary_of_nothing"

\* The Pro branch with no text: the joined results, or the errorlib text for
\* tool_execution_failed.
ProFallbackKind(successes) == IF successes > 0 THEN "results" ELSE "tool_failed"

\* The answers the models give.
Responses ==
    { <<"hi">>,
      <<>>,
      <<"NO_REPLY">>,
      <<TagOpen, "#", "Search", "=", "weather", TagClose>>,
      <<"hi", " ", TagOpen, "#", "Search", "=", "weather", TagClose>>,
      <<TagOpen, "#", "NotResp", ";", "#", "Search", "=", "weather", TagClose>>,
      <<"hi", TagOpen, " ", "#", "NotResp", ";", "#", "Memo", "=", "text", TagClose>>,
      <<TagOpen, "#", "Search", "=", "weather", ";", "#", "NotResp", TagClose>>,
      <<TagOpen, "#", "Search", "=", "user_id", "=", "u9", ";",
                 "#", "Memo", "=", "group_id", "=", "g9", TagClose, "ok">> }

\* The handling ends: `if reply_content:` send_message(...), or nothing.
\* kind says what the reply is; "none" that there is none.
Finish(kind, nonEmpty, executed, escaped) ==
    LET sent == IF kind # "none" /\ nonEmpty THEN kind ELSE "none" IN
    /\ ppc' = "idle"
    /\ sendCalls' = IF sent = "none" THEN sendCalls
                    ELSE Append(sendCalls, [n |-> nInbound, kind |-> sent])
    /\ pipeOp' = [op |-> "done", inbound |-> inbound, path |-> model_path,
                  response |-> response_text, executed |-> executed,
                  not_resp |-> (executed /\ not_resp),
                  successes |-> IF executed THEN Len(SuccessfulResults(results)) ELSE 0,
                  failure |-> failure', sent |-> sent, escaped |-> escaped]

\* handle_cqhttp_event -> handle_event: a message to handle at once, or a
\* group buffer flushed by the aggregator.
Arrive(kind) ==
    /\ ppc = "idle"
    /\ nInbound < MaxInbound
    /\ nInbound' = nInbound + 1
    /\ inbound' = kind
    /\ ppc' = "loading"
    /\ model_path' = ""
    /\ response_text' = <<>>
    /\ failure' = ""
    /\ pipeOp' = NoPipeOp
    /\ UNCHANGED <<context_user_id, sendCalls, loopVars, notPipeVars>>

\* add_message_to_history and get_context. _handle_message_event calls them
\* before its try, _process_buffered_group_messages calls get_context inside
\* its try.
LoadContext(ok) ==
    /\ ppc = "loading"
    /\ IF ok
       THEN /\ ppc' = "handling"
            /\ context_user_id' = Sender
            /\ UNCHANGED <<failure, sendCalls, pipeOp>>
       ELSE /\ failure' = "load"
            /\ UNCHANGED context_user_id
            /\ IF inbound # "batch"
               THEN Finish("none", FALSE, FALSE, TRUE)
               ELSE Finish("handler_apology", TRUE, FALSE, FALSE)
    /\ UNCHANGED <<inbound, model_path, response_text, nInbound, loopVars, notPipeVars>>

\* While the handling is suspended in the retry sleep of a model call
\* (_call_gemini_api sleeps a second after an attempt that failed), the task
\* of another member's message in the same group runs get_context, which
\* finds the session's ContextObject and sets its user_id.
OtherLoadsContext ==
    /\ ppc \in {"handling", "model_call"}
    /\ inbound # "private"
    /\ context_user_id # OtherSender
    /\ context_user_id' = OtherSender
    /\ UNCHANGED <<ppc, inbound, model_path, response_text, failure, nInbound,
                   sendCalls, pipeOp, loopVars, notPipeVars>>

\* handle_message up to the model call of make_decision: the memo, the
\* pre-processing (which catches its own errors), the rules and summaries.
\* An exception here reaches the except of the event handler. A batch takes
\* the flash branch, a message handled at once the Pro branch.
Prelude(ok) ==
    /\ ppc = "handling"
    /\ IF ok
       THEN /\ model_path' = IF inbound = "batch" THEN "flash" ELSE "pro"
            /\ ppc' = "model_call"
            /\ UNCHANGED <<failure, sendCalls, pipeOp>>
       ELSE /\ failure' = "prelude"
            /\ Finish("handler_apology", TRUE, FALSE, FALSE)
            /\ UNCHANGED model_path
    /\ UNCHANGED <<context_user_id, inbound, response_text, nInbound, loopVars,
                   notPipeVars>>

\* _call_gemini_api raised in the flash branch: the except passes and the
\* Pro branch takes over.
FlashFails ==
    /\ ppc \in {"model_call", "flash_summary"}
    /\ model_path = "flash"
    /\ model_path' = "pro"
    /\ ppc' = "model_call"
    /\ pipeOp' = NoPipeOp
    /\ UNCHANGED <<context_user_id, inbound, response_text, failure, nInbound,
                   sendCalls, loopVars,
                   notPipeVars>>

\* _call_gemini_api raised in the Pro branch: the except answers with the
\* errorlib text for general_error.
ProFails ==
    /\ ppc = "model_call"
    /\ model_path = "pro"
    /\ failure' = "pro"
    /\ Finish("general_error", TRUE, FALSE, FALSE)
    /\ UNCHANGED <<context_user_id, inbound, model_path, response_text, nInbound,
                   loopVars, notPipeVars>>

\* The model answered: NO_REPLY (flash branch only) ends in silence, an
\* answer without a block is the reply, an answer with a block goes to the
\* interpreter.
ModelAnswers(t) ==
    /\ ppc = "model_call"
    /\ response_text' = t
    /\ failure' = failure
    /\ IF model_path = "flash" /\ Strip(t) = <<"NO_REPLY">>
       THEN Finish("none", FALSE, FALSE, FALSE)
       ELSE IF AnloopPart(t) = <<>>
       THEN Finish("text", DirectReplyPart(t) # <<>>, FALSE, FALSE)
       ELSE /\ ppc' = "executing"
            /\ UNCHANGED <<sendCalls, pipeOp>>
    /\ UNCHANGED <<context_user_id, inbound, model_path, nInbound, loopVars, notPipeVars>>

\* execute_anloop_sequence has returned its results and flag. Background:
\* no reply. Otherwise the text beside the block is the reply; without text
\* the Pro branch answers with the results or the tool_execution_failed
\* text, and the flash branch asks the Pro model for a summary.
ExecuteReturns ==
    LET n == Len(SuccessfulResults(results)) IN
    /\ ppc = "executing"
    /\ ipc = "returned"
    /\ ipc' = "idle"
    /\ failure' = failure
    /\ IF ~ShouldRespond(not_resp)
       THEN Finish("none", FALSE, TRUE, FALSE)
       ELSE IF DirectReplyPart(response_text) # <<>>
       THEN Finish("text", TRUE, TRUE, FALSE)
       ELSE IF model_path = "pro"
       THEN Finish(ProFallbackKind(n), TRUE, TRUE, FALSE)
       ELSE /\ ppc' = "flash_summary"
            /\ UNCHANGED <<sendCalls, pipeOp>>
    /\ UNCHANGED <<context_user_id, inbound, model_path, response_text, nInbound, anloop_string,
                   tool_calls_str, idx, results, not_resp, dispatchLog, sequenceLog,
                   notPipeVars>>

\* The Pro model's summary of the flash branch's results is the reply.
FlashSummaryAnswers(nonEmpty) ==
    /\ ppc = "flash_summary"
    /\ failure' = failure
    /\ Finish(FlashFallbackKind(Len(SuccessfulResults(results))), nonEmpty, TRUE, FALSE)
    /\ UNCHANGED <<context_user_id, inbound, model_path, response_text, nInbound,
                   loopVars, notPipeVars>>

PipeNext ==
    \/ \E k \in {"private", "direct", "batch"} : Arrive(k)
    \/ \E ok \in BOOLEAN : LoadContext(ok)
    \/ OtherLoadsContext
    \/ \E ok \in BOOLEAN : Prelude(ok)
    \/ FlashFails
    \/ ProFails
    \/ ppc = "model_call" /\ \E t \in Responses : ModelAnswers(t)
    \/ ppc = "executing" /\ ipc = "idle" /\ ExecuteBegin(AnloopPart(response_text))
    \/ ppc = "executing" /\ DispatchBegin
    \/ ppc = "executing" /\ \E o \in {"returned", "raised"} : DispatchReturn(o)
    \/ ExecuteReturns
    \/ \E ne \in BOOLEAN : FlashSummaryAnswers(ne)

SpecPipeline == Init /\ [][PipeNext]_vars

\* ------------------------------------------------------------------ claims
Last(q) == q[Len(q)]

StrictlyIncreasing(q) == \A i \in 1..Len(q) : \A j \in 1..Len(q) : i < j => q[i] < q[j]

\* Event tasks queued for group g whose event has not been processed yet,
\* as their event ids in queue order.
PendingFresh(g) ==
    LET q == SelectSeq(ready, LAMBDA cb :
                 cb.k = "event" /\ cb.g = g /\ cb.id \notin processed_message_ids)
    IN [i \in 1..Len(q) |-> q[i].id]

FlushedIds(g) ==
    UNION {Range(flushLog[i].batch) : i \in {k \in 1..Len(flushLog) : flushLog[k].g = g}}

\* C2: in every reachable state every session has at most one live debounce
\* timer task (armed, neither expired nor cancelled).
C2_AtMostOneLiveTimer ==
    \A g \in Groups : Cardinality(LiveTimers(tasks, g)) <= 1

\* C3: a debounce timer superseded by a later offer to its session never
\* performs its expiry action (never evaluates the expiry threshold, never
\* flushes).
C3_SupersededTimerNeverExpires ==
    ~(lastOp.op = "expiry" /\ lastOp.superseded /\ lastOp.size > 0)

\* C4: the buffer of a session, followed by the events whose tasks are still
\* queued, is exactly the sequence of events delivered for the session and not
\* yet flushed, in delivery order; so N events with no intervening flush are
\* buffered as exactly those N events in the order delivered.
C4_BufferInArrivalOrder ==
    \A g \in Groups :
        group_message_buffers[g] \o PendingFresh(g)
            = SelectSeq(delivered[g], LAMBDA e : e \notin FlushedIds(g))

C4_Witness ==
    \E g \in Groups :
        /\ flushLog = <<>>
        /\ Len(group_message_buffers[g]) = 4
        /\ group_message_buffers[g] = delivered[g]

\* C5: every offer draws its threshold as T + r with r in 0..R; when the
\* buffer size after the append reaches it, the whole buffer is handed to the
\* consumer and cleared in that step and the offer starts no timer; otherwise
\* the offer arms a timer and the buffer keeps the event.
C5_OfferFlushesAtThreshold ==
    lastOp.op = "offer" =>
        LET g == lastOp.g IN
        /\ lastOp.thr \in GROUP_MESSAGE_BUFFER_THRESHOLD_FIXED ..
               (GROUP_MESSAGE_BUFFER_THRESHOLD_FIXED + GROUP_MESSAGE_BUFFER_THRESHOLD_RANDOM)
        /\ lastOp.size >= lastOp.thr =>
              /\ lastOp.flushed /\ ~lastOp.armed
              /\ group_message_buffers[g] = <<>>
              /\ flushLog # <<>>
              /\ Last(flushLog).owner = lastOp.id
              /\ Last(flushLog).by = "offer"
              /\ Len(Last(flushLog).batch) = lastOp.size
              /\ Last(Last(flushLog).batch) = lastOp.id
              /\ group_message_timers[g] # {lastOp.id}
              /\ lastOp.id \in DOMAIN tasks => tasks[lastOp.id].kind = "event"
        /\ lastOp.size < lastOp.thr =>
              /\ lastOp.armed /\ ~lastOp.flushed
              /\ Len(group_message_buffers[g]) = lastOp.size
              /\ group_message_timers[g] = {lastOp.id}

C5_Witness ==
    /\ lastOp.op = "offer" /\ lastOp.flushed
    /\ lastOp.size = GROUP_MESSAGE_BUFFER_THRESHOLD_FIXED
    /\ lastOp.thr = GROUP_MESSAGE_BUFFER_THRESHOLD_FIXED

\* The parts of C6 about the expiry step itself: the threshold is T + r with
\* r in 2..R, the buffer is flushed exactly when its size reaches it, and
\* otherwise the buffer is left as it was and the session's handle is removed.
ExpiryStepAsClaimed ==
    (lastOp.op = "expiry" /\ lastOp.size > 0) =>
        LET g == lastOp.g IN
        /\ lastOp.thr \in (GROUP_MESSAGE_BUFFER_THRESHOLD_FIXED + 2) ..
               (GROUP_MESSAGE_BUFFER_THRESHOLD_FIXED + GROUP_MESSAGE_BUFFER_THRESHOLD_RANDOM)
        /\ lastOp.flushed <=> lastOp.size >= lastOp.thr
        /\ ~lastOp.flushed =>
              /\ Len(group_message_buffers[g]) = lastOp.size
              /\ group_message_timers[g] = {}

\* C6: when a live timer expires the buffer is flushed only if its size is
\* at least T + r, r in 2..R; otherwise the buffer is left as it was, the
\* session's timer handle is removed, nothing is sent, and the buffer stays
\* unflushed until a later offer re-arms a timer.
C6_ExpiryFlushOnlyIfMet ==
    /\ ExpiryStepAsClaimed
    /\ (lastOp.op = "expiry" /\ lastOp.flushed) => ~lastOp.afterUnmet

\* C7: every flush hands over the buffered events oldest first, every event
\* is handed over in at most one flush, and an event offered while a flush's
\* consumer is still running is in the new buffer, not in the batch.
C7_FlushOnceOldestFirst ==
    /\ \A i \in 1..Len(flushLog) :
          LET b == flushLog[i].batch
              g == flushLog[i].g IN
          /\ b # <<>>
          /\ b = SelectSeq(delivered[g], LAMBDA e : e \in Range(b))
          /\ Range(b) \cap Range(group_message_buffers[g]) = {}
    /\ \A i \in 1..Len(flushLog) : \A j \in 1..Len(flushLog) :
          i < j => Range(flushLog[i].batch) \cap Range(flushLog[j].batch) = {}

C7_Witness ==
    \E t \in DOMAIN tasks :
        /\ tasks[t].st = "suspended"
        /\ group_message_buffers[tasks[t].g] # <<>>
        /\ \E i \in 1..Len(flushLog) : flushLog[i].owner = t

\* C1: a Send made while now - lastSend < cooldown transmits nothing and
\* appends its content to pending; so every transmission comes from a Send
\* that was not buffered and happens at least one cooldown window after the
\* lastSend that was on record when that Send was made.
C1_CooldownGate ==
    /\ sendOp.op \in {"buffered", "direct", "merge"} =>
        /\ sendOp.at - sendOp.prevLast < GROUP_REPLY_COOLDOWN =>
              /\ sendOp.op = "buffered"
              /\ Len(sentLog) = sendOp.sentBefore
              /\ sendOp.id \notin DOMAIN sends
              /\ group_reply_buffers[sendOp.g] = Append(sendOp.pendingBefore, sendOp.id)
        /\ sendOp.op # "buffered" =>
              sendOp.at - sendOp.prevLast >= GROUP_REPLY_COOLDOWN
    /\ \A i \in 1..Len(sentLog) :
          LET h == sendHist[sentLog[i].g] IN
          \A k \in 1..Len(h) :
              h[k].id = sentLog[i].id =>
                  /\ h[k].outcome # "buffered"
                  /\ sentLog[i].at - h[k].last >= GROUP_REPLY_COOLDOWN

C1_Witness ==
    /\ sendOp.op = "buffered"
    /\ last_group_reply_time[sendOp.g] # {}
    /\ sendOp.pendingBefore # <<>>

\* What holds of every drain: the Send that finds replies pending outside the
\* cooldown window empties pending and merges the replies in buffering order
\* with its own content; no reply is part of two messages, none of a merged
\* message is still pending, and a Send transmits at most one message.
DrainedOnce ==
    /\ sendOp.op = "direct" => sendOp.pendingBefore = <<>>
    /\ sendOp.op = "merge" =>
          /\ group_reply_buffers[sendOp.g] = <<>>
          /\ sendOp.pendingBefore # <<>>
          /\ \/ /\ sendOp.id \in DOMAIN sends
                /\ sends[sendOp.id].parts = Append(sendOp.pendingBefore, sendOp.id)
             \/ /\ sentLog # <<>>
                /\ Last(sentLog).parts = Append(sendOp.pendingBefore, sendOp.id)
    /\ \A i \in 1..Len(sentLog) :
          /\ StrictlyIncreasing(sentLog[i].parts)
          /\ Last(sentLog[i].parts) = sentLog[i].id
          /\ Range(sentLog[i].parts) \cap Range(group_reply_buffers[sentLog[i].g]) = {}
          /\ sentLog[i].kind = "direct" <=> Len(sentLog[i].parts) = 1
    /\ \A i \in 1..Len(sentLog) : \A j \in 1..Len(sentLog) :
          i < j => Range(sentLog[i].parts) \cap Range(sentLog[j].parts) = {}
    /\ \A s \in DOMAIN sends :
          /\ Range(sends[s].parts) \cap Range(group_reply_buffers[sends[s].g]) = {}
          /\ \A i \in 1..Len(sentLog) :
                sentLog[i].id # s => Range(sentLog[i].parts) \cap Range(sends[s].parts) = {}

\* C8, with the failure path of the summarization: every buffered reply is drained exactly once, by the first
\* Send outside the cooldown window, which merges all pending replies in
\* buffering order with its own content; that Send transmits at most one
\* message, which is the summary of the merged text or, when every
\* summarization attempt failed, the fixed failure message in its place.
C8_DrainedOnceSummaryOrApology ==
    /\ DrainedOnce
    /\ \A i \in 1..Len(sentLog) :
          Len(sentLog[i].parts) > 1 => sentLog[i].kind \in {"summary", "apology"}

C8_Witness ==
    \E i \in 1..Len(sentLog) :
        sentLog[i].kind = "summary" /\ Len(sentLog[i].parts) >= 3

\* C8: the first Send outside the cooldown window removes all pending
\* replies, merges them in buffering order with its own content into one
\* message and transmits that message; no reply is transmitted twice and none
\* remains pending.
C8_MergedMessageTransmitted ==
    /\ DrainedOnce
    /\ \A i \in 1..Len(sentLog) :
          Len(sentLog[i].parts) > 1 => sentLog[i].kind = "summary"

\* The messages transmitted for the call with id c.
SentFor(c) == {i \in 1..Len(sentLog) : sentLog[i].id = c}

\* C9: in a session with no recorded send, whatever the clock shows, the
\* first Send transmits at once and records lastSend; a second Send less than
\* a cooldown later is buffered; a third after the cooldown gives exactly one
\* transmission built from the buffered and the third content.
C9_ColdSessionThreeSends ==
    \A g \in Groups :
        LET h == sendHist[g] IN
        /\ Len(h) >= 1 =>
              /\ h[1].outcome = "direct"
              /\ last_group_reply_time[g] # {}
        /\ (Len(h) >= 2 /\ h[2].at - h[1].at < GROUP_REPLY_COOLDOWN) =>
              h[2].outcome = "buffered"
        /\ (Len(h) >= 3 /\ h[2].at - h[1].at < GROUP_REPLY_COOLDOWN
                /\ h[3].at - h[1].at >= GROUP_REPLY_COOLDOWN) =>
              /\ h[3].outcome = "merge"
              /\ Cardinality(SentFor(h[3].id)) <= 1
              /\ \A i \in SentFor(h[3].id) :
                    sentLog[i].parts = <<h[2].id, h[3].id>> /\ sentLog[i].kind = "summary"

\* C10: for any interleaving of Sends to a session, two transmissions to it
\* are never less than one cooldown window apart and lastSend never
\* decreases.
C10_TransmissionsSpaced ==
    /\ \A i \in 1..Len(sentLog) : \A j \in 1..Len(sentLog) :
          (i < j /\ sentLog[i].g = sentLog[j].g) =>
              sentLog[j].at - sentLog[i].at >= GROUP_REPLY_COOLDOWN
    /\ sendOp.op \in {"direct", "merge", "summarized"} =>
          LastReply(last_group_reply_time[sendOp.g]) >= sendOp.prevLast

\* ---- interpreter claims
WellFormedBlock(t) ==
    \E i \in 1..Len(t) : \E j \in 1..Len(t) : i < j /\ t[i] = TagOpen /\ t[j] = TagClose

\* The block content as the interpreter sees it: trimmed of blanks.
BlockContent == Strip(LoopsMatch(anloop_string)[1])

DropLeading(s, cs) ==
    LET K == {i \in 1..Len(s) : s[i] \notin cs}
    IN IF K = {} THEN <<>> ELSE SubSeq(s, CHOOSE i \in K : \A j \in K : i <= j, Len(s))

\* The calls occur in the text one after the other, from position from on.
RECURSIVE OccurInOrder(_, _, _, _)
OccurInOrder(t, from, calls, k) ==
    IF k > Len(calls) THEN TRUE
    ELSE LET c == calls[k]
             P == {p \in from..Len(t) :
                      p + Len(c) - 1 <= Len(t) /\ SubSeq(t, p, p + Len(c) - 1) = c}
         IN /\ P # {}
            /\ OccurInOrder(t, (CHOOSE p \in P : \A q \in P : p <= q) + Len(c), calls, k + 1)

\* C11: within one Execute the calls are dispatched one at a time in the
\* order they appear in the text: the dispatch of call i+1 begins only after
\* the dispatch of call i has returned, and the result list has exactly one
\* entry per dispatched call, in that order.
C11_DispatchedInTextOrder ==
    /\ \A k \in 1..Len(dispatchLog) :
          /\ dispatchLog[k].i = (k + 1) \div 2
          /\ dispatchLog[k].ev = IF k % 2 = 1 THEN "begin" ELSE "return"
    /\ OccurInOrder(anloop_string, 1, tool_calls_str, 1)
    /\ Len(results) = Len(dispatchLog) \div 2
    /\ \A i \in 1..Len(results) :
          /\ results[i].name = ParseToolCall(tool_calls_str[i]).name
          /\ results[i].params = Inject(ParseToolCall(tool_calls_str[i]).params)
    /\ ipc = "returned" => Len(results) = Len(tool_calls_str)

C11_Witness ==
    /\ ipc = "returned"
    /\ Len(results) = 3
    /\ results[1].name # results[2].name
    /\ results[2].name # results[3].name

\* C12: a call whose handler raises, or whose tool name is unknown, has its
\* entry at its position in the result list (a raising handler as a failed
\* result, an unknown name as the result of the unknown-tool handler); the
\* calls after it are still dispatched and Execute raises nothing.
C12_FailureRecordedSequenceContinues ==
    /\ ipc # "raised"
    /\ \A i \in 1..Len(results) :
          /\ results[i].name = ParseToolCall(tool_calls_str[i]).name
          /\ results[i].outcome = "raised" => ~results[i].success
          /\ results[i].method = "unknown" <=> results[i].method_name \notin Handlers
    /\ \A k \in 1..Len(dispatchLog) :
          dispatchLog[k].ev = "return" => Len(results) >= dispatchLog[k].i
    /\ ipc = "returned" =>
          /\ Len(results) = Len(tool_calls_str)
          /\ \A i \in 1..Len(tool_calls_str) :
                \E k \in 1..Len(dispatchLog) :
                    dispatchLog[k].ev = "begin" /\ dispatchLog[k].i = i

C12_Witness ==
    /\ ipc = "returned"
    /\ Len(results) = 3
    /\ results[1].outcome = "raised"
    /\ results[2].method = "unknown"
    /\ results[3].success /\ results[3].method # "unknown"

\* C13: Execute on a text with no well-formed block (an opening tag followed
\* somewhere by a closing tag) returns an empty result list and isBackground
\* false, and dispatches no tool.
C13_NoBlockNoDispatch ==
    (ipc # "idle" /\ ~WellFormedBlock(anloop_string)) =>
        /\ ipc = "returned"
        /\ results = <<>>
        /\ ~not_resp
        /\ dispatchLog = <<>>
        /\ tool_calls_str = <<>>

C13_Witness ==
    /\ ipc = "returned"
    /\ ~WellFormedBlock(anloop_string)
    /\ Len(anloop_string) >= 7
    /\ anloop_string[1] = TagOpen
    /\ StartsWith(Tail(anloop_string), <<"#", "NotResp", ";", "#", "Search">>)

SingleSegment(content) ==
    /\ Len(content) >= 3
    /\ content[1] = "#"
    /\ content[2] \notin {"#", "=", ";", " ", TagOpen, TagClose}
    /\ content[3] = "="
    /\ \A i \in 4..Len(content) : content[i] \notin {"=", ";", TagOpen, TagClose}

C16_MultiParameterCall ==
    (/\ ipc = "returned"
     /\ WellFormedBlock(anloop_string)
     /\ BlockContent = <<"#", "Memo", "=", "text", ";", "target_memo", "=", "Title">>) =>
        /\ Len(results) = 1
        /\ results[1].method = "memo"
        /\ ContentKey \in DOMAIN results[1].params
        /\ results[1].params[ContentKey] = <<"text">>
        /\ <<"target_memo">> \in DOMAIN results[1].params
        /\ results[1].params[<<"target_memo">>] = <<"Title">>

\* C38: flush sizes are bounded: a flush triggered by an offer hands over at
\* least T events, a flush triggered by a timer's expiry at least T + 2, no
\* flush more than T + R, and the buffer of a session holds fewer than
\* T + R events whenever an offer has been processed.
C38_FlushSizesBounded ==
    LET T == GROUP_MESSAGE_BUFFER_THRESHOLD_FIXED
        R == GROUP_MESSAGE_BUFFER_THRESHOLD_RANDOM
    IN /\ \A k \in 1..Len(flushLog) :
             /\ flushLog[k].by = "offer" => Len(flushLog[k].batch) >= T
             /\ flushLog[k].by = "timer" => Len(flushLog[k].batch) >= T + 2
             /\ Len(flushLog[k].batch) <= T + R
       /\ \A g \in Groups : Len(group_message_buffers[g]) < T + R
       /\ lastOp.op = "offer" =>
             (lastOp.size >= T + R => lastOp.flushed)

C38_Witness ==
    /\ lastOp.op = "offer" /\ lastOp.flushed
    /\ lastOp.size = GROUP_MESSAGE_BUFFER_THRESHOLD_FIXED
                        + GROUP_MESSAGE_BUFFER_THRESHOLD_RANDOM
    /\ lastOp.thr = lastOp.size
    /\ group_message_buffers[lastOp.g] = <<>>

\* ------------------------------------------------ interpreter claims, more
\* A segment that begins with '#', blanks before it aside.
BeginsWithHash(tc) == Strip(tc) # <<>> /\ Strip(tc)[1] = "#"

\* C33: the block content is split on ';' and each segment that begins with
\* '#', also one that follows the separator and blanks as in '#A=1; #B=2',
\* is dispatched as one call; every other segment gives no dispatch, no
\* result entry and no error.
C33_EveryHashSegmentDispatched ==
    (/\ ipc \in {"returned", "raised"}
     /\ WellFormedBlock(anloop_string)
     /\ ~StartsWith(BlockContent, Marker)) =>
        LET calls == SelectSeq(SplitOn(BlockContent, ";"), BeginsWithHash)
        IN /\ ipc = "returned"
           /\ Len(results) = Len(calls)
           /\ \A i \in 1..Len(results) :
                 results[i].name = ParseToolCall(calls[i]).name
           /\ \A k \in 1..Len(dispatchLog) : dispatchLog[k].i <= Len(calls)

\* C34: for every dispatched call the parameters given to the dispatcher
\* carry the user id of the user whose message is being handled under
\* user_id and the session's id under group_id, whatever user_id or group_id
\* the call text itself supplied.
C34_CallerIdsInjected ==
    (ppc = "executing" /\ ipc # "idle") =>
        \A i \in 1..Len(results) :
            /\ UserIdKey \in DOMAIN results[i].params
            /\ results[i].params[UserIdKey] = Sender
            /\ GroupIdKey \in DOMAIN results[i].params
            /\ results[i].params[GroupIdKey] =
                   IF inbound = "private" THEN Sender ELSE <<"g1">>

\* The execute_anloop_sequence calls made for inbound message n.
SequencesFor(n) == {k \in 1..Len(sequenceLog) : sequenceLog[k] = n}

\* C37: handling one inbound message or one flushed batch executes at most
\* one tool-call sequence, also when the model call of the group fast path
\* fails after its sequence has run and the main model path takes over.
C37_OneSequencePerMessage ==
    \A n \in 1..nInbound : Cardinality(SequencesFor(n)) <= 1

\* ------------------------------------------------------- parser claims
\* The segment has the form '#Name=rest' and no ';'-separated piece of rest
\* holds a '='.
BareForm(tool_str) ==
    LET parts == SplitFirst(Strip(tool_str), "=")
    IN /\ Len(parts) = 2
       /\ parts[1] # <<>> /\ parts[1][1] = "#"
       /\ "=" \notin Range(parts[2])

Rest(tool_str) == SplitFirst(Strip(tool_str), "=")[2]

\* C32: parsing one call segment never raises, for any segment text; a
\* segment of the form '#Name=rest' in which rest holds no key=value pair
\* parses to exactly one parameter, keyed 'query', whose value is rest
\* unchanged.
C32_BareRestIsQuery ==
    parsed.op = "parsed" =>
        /\ ~parsed.raised
        /\ BareForm(parsed.tool_str) =>
              parsed.params = Put(<<>>, QueryKey, Rest(parsed.tool_str))

\* C32, with the key the parser uses: parsing never raises; a segment of
\* the form '#Name=rest' in which rest holds no key=value pair parses to
\* exactly one parameter: content, holding the part of rest before its
\* first ';' trimmed of blanks, when that is not empty, and otherwise
\* query, holding rest unchanged.
C32_BareRestIsContentOrQuery ==
    parsed.op = "parsed" =>
        /\ ~parsed.raised
        /\ BareForm(parsed.tool_str) =>
              LET rest == Rest(parsed.tool_str)
                  first == Strip(SplitOn(rest, ";")[1])
              IN parsed.params = IF first # <<>>
                                 THEN Put(<<>>, ContentKey, first)
                                 ELSE Put(<<>>, QueryKey, rest)

C32_Witness ==
    /\ parsed.op = "parsed"
    /\ parsed.tool_str = <<"#", "Search", "=", ";">>
    /\ parsed.params = Put(<<>>, QueryKey, <<";">>)

\* ---------------------------------------------------- dispatcher claims
\* C35: every result of the dispatcher has success true and no error
\* description, or success false with an error description and no result
\* payload; none has both a payload and an error description, also for an
\* unknown tool name and for a call without the caller's user id.
C35_ResultXorError ==
    dispatched.op = "returned" =>
        LET r == dispatched.res IN
        /\ r.success => r.error = NoneValue
        /\ ~r.success => (r.error # NoneValue /\ r.result = NoneValue)
        /\ ~(r.result # NoneValue /\ r.error # NoneValue)
        /\ NoUserId(dispatched.tool_params) => ~r.success
        /\ (dispatched.method = "unknown" /\ dispatched.outcome = "returned") =>
              (r.success /\ r.result = "unknown_tool_text")

C35_Witness ==
    /\ dispatched.op = "returned"
    /\ NoUserId(dispatched.tool_params)
    /\ UserIdKey \in DOMAIN dispatched.tool_params
    /\ dispatched.tool_name = <<"Bogus">>
    /\ dispatched.res = [success |-> FALSE, result |-> NoneValue,
                         error |-> "user_id_required"]

\* ------------------------------------------------------ deferred job claims
\* The calls one session made, in order.
CallsOf(u) == SelectSeq(jobCalls, LAMBDA c : c.user = u)

\* The runs recorded for a job id.
FiredFor(id) == {k \in 1..Len(firedLog) : firedLog[k].id = id}

\* The places where a job is tracked as j: queued in the scheduler or stored.
TrackedAs(j) ==
    Cardinality({k \in 1..Len(pendingJobs) : pendingJobs[k] = j})
      + (IF j.id \in DOMAIN jobStore /\ jobStore[j.id] = j THEN 1 ELSE 0)

\* C17: after a session creates a pending job for t1, then one for another
\* time t2, and then configures, the configuration succeeds on the job made
\* for t2, and the job made for t1 keeps its no-op action and runs at t1.
C17_ConfigureTargetsLatestOnly ==
    \A u \in Users :
        LET uc == CallsOf(u) IN
        \A i \in 1..Len(uc) :
            (/\ i + 2 <= Len(uc)
             /\ uc[i].op = "create" /\ uc[i + 1].op = "create"
             /\ uc[i].id # uc[i + 1].id
             /\ uc[i + 2].op = "configure")
            => /\ uc[i + 2].res = "ok"
               /\ uc[i + 2].id = uc[i + 1].id
               /\ wall > uc[i].id[2] =>
                      \E k \in FiredFor(uc[i].id) :
                          firedLog[k].at = uc[i].id[2] /\ firedLog[k].func = "lambda"

\* C18: a configuration by a session that has no awaiting job returns the
\* "set a time first" error value, does not raise, and leaves every queued
\* job, every stored job and every session's awaiting pointer as they were.
C18_NoPendingJobIsAnErrorValue ==
    (jobOp.op = "configure" /\ ~jobOp.hadPointer)
        => jobOp.res = "no_pending" /\ JobState = jobOp.before

C18_Witness ==
    /\ jobOp.op = "configure" /\ ~jobOp.hadPointer
    /\ pendingJobs # <<>>
    /\ \E v \in Users : v # jobOp.user /\ _pending_user_tasks[v] # {}

\* C19: a job run without having been configured is the no-op, and a job
\* whose configuration succeeded has, once its trigger time is past, run its
\* configured action exactly once, at that time.
C19_ConfiguredJobExecutesOnce ==
    /\ \A k \in 1..Len(firedLog) : firedLog[k].func = "lambda" => firedLog[k].payload = ""
    /\ \A c \in 1..Len(jobCalls) :
           (jobCalls[c].op = "configure" /\ jobCalls[c].res = "ok" /\ wall > jobCalls[c].id[2])
           => \E k \in FiredFor(jobCalls[c].id) :
                  /\ firedLog[k].at = jobCalls[c].id[2]
                  /\ firedLog[k].func = CallbackFor(jobCalls[c].payload)
                  /\ \A k2 \in FiredFor(jobCalls[c].id) : k2 = k

\* C20: after a restart, every job that was tracked and not yet due when the
\* process ended is, until its trigger time, tracked exactly once with the
\* id, trigger time and action it had.
C20_JobsSurviveRestart ==
    restarted => \A j \in beforeRestart : j.run > wall => TrackedAs(j) = 1

\* C21: a configuration and the trigger time of the job it names resolve to
\* one outcome: a configuration that comes after the job's trigger time
\* reports the job as expired or missing, and a job never runs twice.
C21_ConfigureAfterTriggerReportsExpired ==
    /\ \A k1 \in 1..Len(firedLog), k2 \in 1..Len(firedLog) :
           firedLog[k1].id = firedLog[k2].id => k1 = k2
    /\ (/\ jobOp.op = "configure" /\ jobOp.hadPointer
        /\ \A id \in jobOp.before.ptrs[jobOp.user] : wall > id[2])
       => jobOp.res = "expired"

\* What get_job(id) finds: the first queued job of that id on a stopped
\* scheduler, the stored one on a running scheduler; a set of at most one.
GetJob(id) ==
    IF apState = "stopped"
    THEN LET K == {k \in 1..Len(pendingJobs) : pendingJobs[k].id = id}
         IN IF K = {} THEN {} ELSE {pendingJobs[CHOOSE k \in K : \A j \in K : k <= j]}
    ELSE IF id \in DOMAIN jobStore THEN {jobStore[id]} ELSE {}

TrackedWithId(id) ==
    Cardinality({k \in 1..Len(pendingJobs) : pendingJobs[k].id = id})
        + (IF id \in DOMAIN jobStore THEN 1 ELSE 0)

\* C39: no two tracked jobs have the same id, and a creation for a session
\* and a trigger time for which a job is already tracked, configured or not,
\* succeeds and leaves exactly one job under that id, the unconfigured no-op
\* job, named by the session's awaiting pointer.
C39_OneJobPerId ==
    /\ \A u \in Users, t \in 1..MaxRunTime : TrackedWithId(JobId(u, t)) <= 1
    /\ jobOp.op = "create" =>
          LET id == Last(jobCalls).id
              existed == \/ \E k \in 1..Len(jobOp.before.pend) :
                               jobOp.before.pend[k].id = id
                         \/ id \in DOMAIN jobOp.before.store
          IN existed =>
                /\ jobOp.res = "ok"
                /\ TrackedWithId(id) = 1
                /\ GetJob(id) = {NoOpJob(id[1], id[2])}
                /\ _pending_user_tasks[jobOp.user] = {id}

\* C40: a configuration that finds the session's awaiting pointer and does
\* not succeed returns an error value (the job is gone, or no send callback
\* is registered for a message) and does not raise, leaves every queued and
\* stored job as it was, and clears the session's pointer and no other; a
\* message configuration without a registered callback never succeeds; and
\* a further configuration by the session with no creation in between
\* returns the no-pending-job error.
C40_FailedConfigureConsumesPointer ==
    /\ (jobOp.op = "configure" /\ jobOp.hadPointer /\ jobOp.res # "ok") =>
          /\ jobOp.res \in {"expired", "no_callback"}
          /\ pendingJobs = jobOp.before.pend
          /\ jobStore = jobOp.before.store
          /\ _pending_user_tasks = [jobOp.before.ptrs EXCEPT ![jobOp.user] = {}]
    /\ (/\ jobOp.op = "configure" /\ jobOp.hadPointer
        /\ Last(jobCalls).payload = "msg" /\ ~send_message_callback)
       => jobOp.res \in {"expired", "no_callback"}
    /\ \A u \in Users :
          LET uc == CallsOf(u) IN
          \A i \in 1..Len(uc) - 1 :
              (/\ uc[i].op = "configure" /\ uc[i].res \in {"expired", "no_callback"}
               /\ uc[i + 1].op = "configure")
              => uc[i + 1].res = "no_pending"

C40_Witness ==
    /\ jobOp.op = "configure" /\ jobOp.res = "no_pending"
    /\ LET uc == CallsOf(jobOp.user) IN
         /\ Len(uc) = 3
         /\ uc[1].op = "create" /\ uc[1].res = "ok"
         /\ uc[2].op = "configure" /\ uc[2].res = "no_callback"
         /\ uc[3].op = "configure"
         /\ GetJob(uc[1].id) = {NoOpJob(uc[1].id[1], uc[1].id[2])}

\* ---------------------------------------------------------- watchdog claims
\* The call of the process manager that follows call i.
NextCall(i) == procCalls[i + 1]

\* C22: the watchdog stops the process only at a check where more than the
\* timeout has passed since the last heartbeat; a check at or within the
\* timeout leaves the process alone, and while no moment since the start was
\* later than the timeout after the last heartbeat the watchdog has called
\* neither stop nor start.
C22_NoRestartWithinTimeout ==
    /\ \A i \in WatchdogStops : procCalls[i].gap > heartbeat_timeout
    /\ (watchOp.op = "check" /\ watchOp.gap <= heartbeat_timeout) => watchOp.outcome = "alive"
    /\ ~gapExceeded => \A i \in 1..Len(procCalls) : procCalls[i].by # "watchdog"

C22_Witness ==
    /\ watchOp.op = "check" /\ watchOp.gap = heartbeat_timeout /\ watchOp.outcome = "alive"
    /\ \A i \in 1..Len(procCalls) : procCalls[i].by # "watchdog"

\* C23: a stop made by the watchdog is followed, unless the shutdown comes
\* first, by one start made by the watchdog after the grace interval, and
\* after every such start that did not raise the heartbeat time is reset, so
\* that the watchdog's next stop comes more than the timeout later.
C23_OneRestartCyclePerGap ==
    \A i \in WatchdogStops :
        (procCalls[i].outcome = "returned" /\ i < Len(procCalls) /\ NextCall(i).by = "watchdog")
        => /\ NextCall(i).call = "start"
           /\ NextCall(i).at = procCalls[i].at + RESTART_GRACE
           /\ NextCall(i).outcome # "raised" =>
                  \A j \in WatchdogStops :
                      j > i => procCalls[j].at - NextCall(i).at > heartbeat_timeout

\* C23, with the outcome of the start: the heartbeat time is reset when the
\* start returned True, and only then; after a start that returned False or
\* raised it is left as it was and the next check comes one poll interval
\* later.
C23_RestartCycleResetsOnSuccess ==
    /\ \A i \in WatchdogStops :
           (procCalls[i].outcome = "returned" /\ i < Len(procCalls) /\ NextCall(i).by = "watchdog")
           => /\ NextCall(i).call = "start"
              /\ NextCall(i).at = procCalls[i].at + RESTART_GRACE
              /\ NextCall(i).outcome = "true" =>
                     \A j \in WatchdogStops :
                         j > i => procCalls[j].at - NextCall(i).at > heartbeat_timeout
    /\ watchOp.op = "restart"
       => IF watchOp.outcome = "true"
          THEN last_heartbeat_time = clock /\ monitor_task = "settle_sleep"
          ELSE clock - last_heartbeat_time = watchOp.gap /\ wakeAt = clock + POLL_INTERVAL

C23_Witness ==
    \E i \in WatchdogStops, j \in WatchdogStops :
        /\ j = i + 2
        /\ NextCall(i).by = "watchdog" /\ NextCall(i).outcome = "true"
        /\ procCalls[j].at - NextCall(i).at > heartbeat_timeout

\* C24: while the scheduler is running the monitor task has not ended, and a
\* check in which stop or start raised is followed by the sleep of one poll
\* interval and then by the next check.
C24_PollLoopSurvivesExceptions ==
    /\ (running /\ monitor_task # "none") => monitor_task # "done"
    /\ (watchOp.op \in {"check", "restart"} /\ watchOp.outcome = "raised")
       => monitor_task = "poll_sleep" /\ wakeAt = clock + POLL_INTERVAL

C24_Witness ==
    /\ running /\ watchOp.op = "check"
    /\ \E i \in 1..Len(procCalls) :
           /\ procCalls[i].by = "watchdog" /\ procCalls[i].call = "start"
           /\ procCalls[i].outcome = "raised"
           /\ procCalls[i].at + POLL_INTERVAL = clock

\* C25: the stop of the shutdown is issued with the monitor task ended, and
\* every call the watchdog makes of the process manager is made while the
\* scheduler is running, that is before the shutdown began.
C25_NoRestartRacesShutdown ==
    /\ \A i \in 1..Len(procCalls) :
           /\ procCalls[i].by = "shutdown" => procCalls[i].task = "done"
           /\ procCalls[i].by = "watchdog" => procCalls[i].running
    /\ stopping = "done" => monitor_task = "done"

C25_Witness ==
    /\ stopping = "done"
    /\ Len(procCalls) >= 2
    /\ procCalls[Len(procCalls)].by = "shutdown"
    /\ procCalls[Len(procCalls) - 1].by = "watchdog"
    /\ procCalls[Len(procCalls) - 1].call = "stop"
    /\ procCalls[Len(procCalls) - 1].outcome = "returned"

\* ------------------------------------------------- reply throttler, errors
\* C28: a merge transmits one message; when the summarization succeeded it
\* is the summary, and when every attempt failed it is the newline-joined
\* replies followed by the current content.
C28_JoinWhenSummaryFails ==
    /\ sendOp.op = "summarized" =>
          /\ Len(sentLog) = sendOp.sentBefore + 1
          /\ Last(sentLog).parts = sends[sendOp.id].parts
          /\ Last(sentLog).kind = IF sends[sendOp.id].fails >= MaxAttempts
                                  THEN "join" ELSE "summary"
    /\ (sendOp.op = "merge" /\ Len(sentLog) > sendOp.sentBefore) =>
          /\ Len(sentLog) = sendOp.sentBefore + 1
          /\ Last(sentLog).kind = "summary"

\* C28, with what the failure path sends: a merge transmits one message;
\* when the summarization succeeded it is the summary, and when every
\* attempt failed it is the fixed failure message, the merged replies and
\* the current content being transmitted nowhere.
C28_FailureMessageWhenSummaryFails ==
    /\ sendOp.op = "summarized" =>
          /\ Len(sentLog) = sendOp.sentBefore + 1
          /\ Last(sentLog).parts = sends[sendOp.id].parts
          /\ Last(sentLog).kind = IF sends[sendOp.id].fails >= MaxAttempts
                                  THEN "apology" ELSE "summary"
    /\ (sendOp.op = "merge" /\ Len(sentLog) > sendOp.sentBefore) =>
          /\ Len(sentLog) = sendOp.sentBefore + 1
          /\ Last(sentLog).kind = "summary"

C28_Witness ==
    /\ sendOp.op = "summarized"
    /\ sends[sendOp.id].fails >= MaxAttempts
    /\ Last(sentLog).kind = "apology"
    /\ Len(Last(sentLog).parts) >= 2

\* C29: when the post of a merged message fails, the call ends without an
\* exception, the reply buffer and the reply time are as they were, and none
\* of the merged replies is back in the buffer.
C29_TransportFailureConsumesMerged ==
    (sendOp.op = "posted" /\ sendOp.post # "ok" /\ Len(sendOp.parts) > 1) =>
        /\ sendOp.id \notin DOMAIN sends
        /\ group_reply_buffers[sendOp.g] = sendOp.pendingBefore
        /\ Range(sendOp.parts) \cap Range(group_reply_buffers[sendOp.g]) = {}
        /\ LastReply(last_group_reply_time[sendOp.g]) = sendOp.prevLast

C29_Witness ==
    /\ sendOp.op = "posted" /\ sendOp.post = "raised"
    /\ Len(sendOp.parts) > 1
    /\ group_reply_buffers[sendOp.g] # <<>>

\* The replies transmitted as part of a merged message.
TransmittedMerged ==
    UNION {Range(sentLog[i].parts) : i \in {k \in 1..Len(sentLog) :
               Len(sentLog[k].parts) > 1 /\ sentLog[k].kind = "summary"}}

\* C30: a reply that is in the buffer when the cooldown window has elapsed
\* is eventually transmitted as part of a merged message.
C30_BufferedEventuallyTransmitted ==
    \A g \in Groups : \A c \in 1..MaxSends :
        (/\ c \in Range(group_reply_buffers[g])
         /\ ~InCooldown(now, LastReply(last_group_reply_time[g])))
        ~> (c \in TransmittedMerged)

\* C31: a send that is buffered leaves the session's reply time and the
\* transmissions as they were; the reply time changes only in a step of a
\* send that goes on to transmit (direct or merged), which sets it to the
\* time that send read at its start and hands one message to the
\* transport; the transport's outcome leaves the reply time as set.
C31_ReplyTimeSetOnlyOnTransmission ==
    [][\A g \in Groups :
          /\ (sendOp'.op = "buffered" /\ sendOp'.g = g) =>
                /\ last_group_reply_time'[g] = last_group_reply_time[g]
                /\ sentLog' = sentLog
                /\ DOMAIN sends' = DOMAIN sends
          /\ last_group_reply_time'[g] # last_group_reply_time[g] =>
                /\ sendOp'.g = g
                /\ sendOp'.op \in {"direct", "merge", "summarized"}
                /\ last_group_reply_time'[g] = {sendOp'.at}
                /\ \E h \in Range(sendHist'[g]) :
                      h.id = sendOp'.id /\ h.at = sendOp'.at
                /\ Len(sentLog') = Len(sentLog) + 1
                /\ Last(sentLog').id = sendOp'.id
          /\ Len(sentLog') > Len(sentLog) =>
                last_group_reply_time'[Last(sentLog').g] = {sendOp'.at}
          /\ sendOp'.op = "posted" =>
                last_group_reply_time'[g] = last_group_reply_time[g]
      ]_vars

C31_Witness ==
    /\ sendOp.op = "posted" /\ sendOp.post = "raised"
    /\ \E h \in Range(sendHist[sendOp.g]) :
          /\ h.id = sendOp.id
          /\ h.at > 0
          /\ last_group_reply_time[sendOp.g] = {h.at}
    /\ \E h \in Range(sendHist[sendOp.g]) : h.outcome = "buffered"

\* ------------------------------------------------------ reply pipeline claims
\* The block of the answer starts with the no-response marker.
Marked(t) == LoopsMatch(t) # <<>> /\ StartsWith(Strip(LoopsMatch(t)[1]), Marker)

\* The replies that are apologies: the event handler's own, and the errorlib
\* texts for general_error and tool_execution_failed.
Apologies == {"handler_apology", "general_error", "tool_failed"}

\* C26: when the block of the model's answer starts with the no-response
\* marker, the handling of that inbound message or batch ends without a
\* send_message call for it, whatever the tools returned.
C26_BackgroundSendsNoReply ==
    (pipeOp.op = "done" /\ Marked(pipeOp.response)) =>
        /\ pipeOp.sent = "none"
        /\ \A i \in 1..Len(sendCalls) : sendCalls[i].n # nInbound

C26_Witness ==
    /\ pipeOp.op = "done" /\ Marked(pipeOp.response)
    /\ pipeOp.inbound = "batch"
    /\ DirectReplyPart(pipeOp.response) # <<>>
    /\ Len(results) > 0 /\ pipeOp.successes = 0

\* C27: a handling that failed with an exception, or a sequence that was not
\* background, gave no successful result and came without text, ends with an
\* apology sent to the session, and no exception leaves the event handler.
C27_FailureYieldsApology ==
    pipeOp.op = "done" =>
        /\ ~pipeOp.escaped
        /\ pipeOp.failure # "" => pipeOp.sent \in Apologies
        /\ (/\ pipeOp.executed /\ ~pipeOp.not_resp
            /\ pipeOp.successes = 0
            /\ DirectReplyPart(pipeOp.response) = <<>>)
           => pipeOp.sent \in Apologies

====
